---- MODULE Spec2Model ----
(***************************************************************************)
(* A model of the Pong simulation engine: game/entities.py (Ball, Paddle), *)
(* game/ai.py (SimpleAI) and game/engine.py (PongGame).                    *)
(*                                                                         *)
(* Numbers.  The program computes in binary floating point.  The model     *)
(* computes in fixed point: every length is an integer number of 1/Scale   *)
(* pixels, every velocity an integer number of 1/Scale pixels per second,  *)
(* every time step an integer number of milliseconds, and every product or *)
(* quotient is rounded to the nearest unit, as a float operation rounds to *)
(* the nearest representable value.  Ratios that the program keeps as one  *)
(* float (hit_position, speed_factor) are kept exact as numerator and      *)
(* denominator and rounded once, where they are applied.                   *)
(***************************************************************************)
EXTENDS Integers, Sequences, FiniteSets, TLC

\* ------------------------------------------------------------------ bounds

\* units per pixel of the fixed-point arithmetic: fine enough that the presets'
\* speeds and the time steps below multiply without a rounding error of their
\* own, as they do to within 1e-13 in the program's floats
Scale == 20
\* field_width and field_height handed to PongGame.__init__ (pixels)
FieldWidth == 180
FieldHeight == 100
\* update(dt) calls explored per match while playing
MaxTicks == 4
\* update(dt) calls explored per match in the rally specification
MaxRallyTicks == 300

\* delta_time values (milliseconds) the driver passes to update: half of and
\* all of MAX_DELTA_TIME (main.py), and one frame of the 50 Hz timer in the
\* rally specification
DeltaTimes == {50, 100}
RallyDeltaTimes == {20}
\* delta_time values (milliseconds) tried on Paddle.update in every state: no
\* time at all, the driver's steps and a whole second
PaddleDeltaTimes == {0, 50, 100, 1000}
\* where a ball is placed relative to the centre of the AI's paddle (units):
\* on the centre, on either edge of the dead zone and one unit beyond it
AIOffsets == {-(15 * Scale) - 1, -(15 * Scale), 0, 15 * Scale, 15 * Scale + 1}
\* difficulty values (1/100) handed to SimpleAI.__init__, some out of range
AIDifficulties == {-50, 0, 10, 50, 100, 150}
\* values of random.uniform(-0.5, 0.5) explored by reset_ball, <<num, den>>
Angles == {<<-1, 2>>, <<0, 1>>}

\* delta_time values (milliseconds) of the frame specifications: two timer
\* events that read the same clock value (main.py: min(now - last_time,
\* MAX_DELTA_TIME) has no lower bound), and the driver's steps
FrameDeltaTimes == {0, 50, 100}
\* update(dt) calls explored per match in the frame specifications
MaxFrameTicks == 5
\* the field height (pixels) handed to Paddle.update where the AI tracks a
\* held ball, tall enough for the paddle to travel
TrackFieldHeight == 300
\* delta_time values (milliseconds) while tracking: one frame of the 60 Hz
\* timer and MAX_DELTA_TIME
TrackDeltaTimes == {16, 100}
\* where the held ball is placed relative to the centre of the AI's paddle
\* (units): just outside the dead zone on either side, and far below
TrackOffsets == {-(17 * Scale), 17 * Scale, 60 * Scale}
\* add_score calls explored, the scores passed and the names passed
MaxAdds == 6
MaxScore == 2
ScoreValues == 0 .. MaxScore
ScoreNames == {"A", "B"}

\* rounding tolerance, in units, when a velocity's magnitude is compared with
\* the ball's speed
VelocityTolerance == 2

\* ------------------------------------------------------- program constants

PADDLE_WIDTH == 10
PADDLE_HEIGHT == 80
PADDLE_MARGIN == 20
BALL_RADIUS == 8
PADDLE_HIT_VELOCITY_BOOST == 50
AI_THRESHOLD == 15
MAX_SCORES_KEPT == 5
\* REACTION_DELAY_BASE = 0.05, in 1/10000 s per 1/100 of (1 - difficulty)
REACTION_DELAY_BASE == 5

\* fractions are kept as integers: ai_difficulty in 1/100, speed_increase in
\* 1/100, max_speed_mult in 1/10
DIFFICULTY_PRESETS ==
  [easy   |-> [ai_difficulty |-> 10, ball_speed |-> 200, paddle_speed |-> 350,
               speed_increase |-> 103, max_speed_mult |-> 20],
   medium |-> [ai_difficulty |-> 60, ball_speed |-> 250, paddle_speed |-> 300,
               speed_increase |-> 105, max_speed_mult |-> 25],
   hard   |-> [ai_difficulty |-> 85, ball_speed |-> 320, paddle_speed |-> 270,
               speed_increase |-> 108, max_speed_mult |-> 30]]

PresetNames == {"easy", "medium", "hard"}

\* names handed to PongGame.__init__ and set_difficulty where any string may
\* come: the presets' keys and two that are no key
DifficultyNames == PresetNames \cup {"expert", ""}

GameStates == {"menu", "playing", "paused", "game_over"}

\* -------------------------------------------------------------- arithmetic

Abs(x) == IF x < 0 THEN -x ELSE x
Min(a, b) == IF a <= b THEN a ELSE b
Max(a, b) == IF a >= b THEN a ELSE b

\* a / b rounded to the nearest integer (b > 0)
RoundDiv(a, b) == (2 * a + b) \div (2 * b)

RECURSIVE SqrtIter(_, _)
SqrtIter(n, r) ==
  LET next == (r + n \div r) \div 2
  IN  IF next >= r THEN r ELSE SqrtIter(n, next)

\* n ** 0.5 rounded to the nearest integer
Sqrt(n) ==
  IF n = 0 THEN 0
  ELSE LET r == SqrtIter(n, n)
       IN  IF n - r * r > r THEN r + 1 ELSE r

\* (vx**2 + vy**2) ** 0.5
Magnitude(v) == Sqrt(v[1] * v[1] + v[2] * v[2])

\* ------------------------------------------------------ entities.py: Ball

\* Ball.__init__
Ball(x, y, radius, velocity_x, velocity_y, speed_increase_factor, max_speed_multiplier) ==
  LET base == Sqrt(velocity_x * velocity_x + velocity_y * velocity_y)
  IN  [position |-> <<x, y>>,
       radius |-> radius,
       velocity |-> <<velocity_x, velocity_y>>,
       base_speed |-> base,
       speed |-> base,
       speed_increase_factor |-> speed_increase_factor,
       max_speed |-> RoundDiv(base * max_speed_multiplier, 10)]

\* Ball.update: position += velocity * delta_time
Ball_update(b, delta_time) ==
  [b EXCEPT !.position = <<b.position[1] + RoundDiv(b.velocity[1] * delta_time, 1000),
                           b.position[2] + RoundDiv(b.velocity[2] * delta_time, 1000)>>]

reflect_x_leftward(b) == [b EXCEPT !.velocity = <<-Abs(b.velocity[1]), b.velocity[2]>>]

reflect_x(b) == [b EXCEPT !.velocity = <<-b.velocity[1], b.velocity[2]>>]

reflect_y(b) == [b EXCEPT !.velocity = <<b.velocity[1], -b.velocity[2]>>]

increase_speed_uncapped(b) ==
  [b EXCEPT !.speed = RoundDiv(b.speed * b.speed_increase_factor, 100)]

increase_speed_wraps(b) ==
  LET faster == RoundDiv(b.speed * b.speed_increase_factor, 100)
  IN  [b EXCEPT !.speed = IF faster > b.max_speed THEN b.base_speed ELSE faster]

increase_speed(b) ==
  [b EXCEPT !.speed = Min(RoundDiv(b.speed * b.speed_increase_factor, 100), b.max_speed)]

reset_speed(b) == [b EXCEPT !.speed = b.base_speed]

\* Ball.get_rect: <<left, top, right, bottom>>
Ball_get_rect(b) ==
  <<b.position[1] - b.radius, b.position[2] - b.radius,
    b.position[1] + b.radius, b.position[2] + b.radius>>

\* ---------------------------------------------------- entities.py: Paddle

\* Paddle.__init__
Paddle(x, y, width, height, speed) ==
  [position |-> <<x, y>>, width |-> width, height |-> height,
   speed |-> speed, direction |-> 0]

Paddle_update_unclamped(p, delta_time, field_height) ==
  LET moved == p.position[2] + RoundDiv(p.direction * p.speed * delta_time, 1000)
  IN  [p EXCEPT !.position = <<p.position[1], moved>>]

Paddle_update_stops_at_wall(p, delta_time, field_height) ==
  LET moved == p.position[2] + RoundDiv(p.direction * p.speed * delta_time, 1000)
      min_y == 0
      max_y == field_height - p.height
      clamped == Max(min_y, Min(max_y, moved))
  IN  [p EXCEPT !.position = <<p.position[1], clamped>>,
                !.direction = IF clamped = moved THEN p.direction ELSE 0]

\* Paddle.update: move, then clamp to [0, field_height - height]
Paddle_update(p, delta_time, field_height) ==
  LET moved == p.position[2] + RoundDiv(p.direction * p.speed * delta_time, 1000)
      min_y == 0
      max_y == field_height - p.height
  IN  [p EXCEPT !.position = <<p.position[1], Max(min_y, Min(max_y, moved))>>]

move_up(p) == [p EXCEPT !.direction = -1]

move_down(p) == [p EXCEPT !.direction = 1]

stop_keeps_moving(p) == p

stop(p) == [p EXCEPT !.direction = 0]

\* Paddle.get_rect: <<left, top, right, bottom>>
Paddle_get_rect(p) ==
  <<p.position[1], p.position[2],
    p.position[1] + p.width, p.position[2] + p.height>>

\* Paddle.get_center_y: position.y + height / 2 (the height is an even number
\* of units, so the half is exact)
get_center_y(p) == p.position[2] + p.height \div 2

\* ------------------------------------------------------------------ ai.py

\* SimpleAI.__init__: difficulty clamped to [0, 1], reaction delay derived
SimpleAI(difficulty) ==
  LET d == Max(0, Min(100, difficulty))
  IN  [difficulty |-> d, reaction_delay |-> REACTION_DELAY_BASE * (100 - d)]

\* Python's None, where a Ball is expected
None == <<>>

SimpleAI_update_stops_without_ball(self, p, b) ==
  IF b = None
  THEN stop(p)
  ELSE LET distance == b.position[2] - get_center_y(p)
       IN  IF Abs(distance) > AI_THRESHOLD * Scale
           THEN IF distance > 0 THEN move_down(p) ELSE move_up(p)
           ELSE stop(p)

SimpleAI_update_strict_zone(self, p, b) ==
  IF b = None
  THEN p
  ELSE LET distance == b.position[2] - get_center_y(p)
       IN  IF Abs(distance) >= AI_THRESHOLD * Scale
           THEN IF distance > 0 THEN move_down(p) ELSE move_up(p)
           ELSE stop(p)

SimpleAI_update_by_difficulty(self, p, b) ==
  IF b = None
  THEN p
  ELSE LET distance == b.position[2] - get_center_y(p)
       IN  IF Abs(distance) * self.difficulty > AI_THRESHOLD * Scale * 50
           THEN IF distance > 0 THEN move_down(p) ELSE move_up(p)
           ELSE stop(p)

\* SimpleAI.update of the AI self on its paddle p: the paddle it leaves
SimpleAI_update(self, p, b) ==
  IF b = None
  THEN p
  ELSE LET ball_y == b.position[2]
           paddle_center_y == get_center_y(p)
           distance == ball_y - paddle_center_y
       IN  IF Abs(distance) > AI_THRESHOLD * Scale
           THEN IF distance > 0 THEN move_down(p) ELSE move_up(p)
           ELSE stop(p)

\* --------------------------------------- high_scores.py: HighScoreManager

\* an entry placed behind every entry whose score is at least its own
insert_by_score(list, entry) ==
  LET ahead == {i \in 1 .. Len(list) : list[i].score >= entry.score}
      k == Cardinality(ahead)
  IN  SubSeq(list, 1, k) \o <<entry>> \o SubSeq(list, k + 1, Len(list))

\* list.sort(key=lambda x: x['score'], reverse=True): a stable sort, entries
\* of equal score keep their order
RECURSIVE sort_by_score(_)
sort_by_score(list) ==
  IF list = <<>> THEN <<>>
  ELSE insert_by_score(sort_by_score(SubSeq(list, 1, Len(list) - 1)),
                       list[Len(list)])

add_score_trims_first(list, name, score) ==
  sort_by_score(SubSeq(Append(list, [name |-> name, score |-> score]), 1,
                       Min(Len(list) + 1, MAX_SCORES_KEPT)))

\* HighScoreManager.add_score: the list it leaves in self.scores and saves
add_score(list, name, score) ==
  LET sorted == sort_by_score(Append(list, [name |-> name, score |-> score]))
  IN  SubSeq(sorted, 1, Min(Len(sorted), MAX_SCORES_KEPT))

\* HighScoreManager.load_scores: the list read from the file, sorted
load_scores(file) == sort_by_score(file)

\* HighScoreManager.get_top_scores
get_top_scores(list, count) == SubSeq(list, 1, Min(Len(list), count))

\* HighScoreManager.get_highest_score
get_highest_score(list) == IF Len(list) = 0 THEN 0 ELSE list[1].score

\* ----------------------------------------------------- engine.py: state

VARIABLES
  difficulty,             \* PongGame.difficulty: the preset name
  ai_difficulty,          \* the five parameters apply_difficulty_preset sets
  ball_speed,
  paddle_speed,
  speed_increase_factor,
  max_speed_multiplier,
  score_left,
  score_right,
  game_state,
  last_ball_position,
  enable_trail,
  bounce_count,
  audio_callbacks,        \* names registered in _audio_callbacks
  visual_callbacks,       \* names registered in _visual_callbacks
  lighting_callbacks,     \* names registered in _lighting_callbacks
  trail_callbacks,        \* whether set_trail_callbacks has set the two trail sinks
  paddle_left,
  paddle_right,
  ai,
  ball,
  events,                 \* the callbacks the last operation invoked, in order, or
                          \* the exception that ended it
  goal_count,             \* 'goal' dispatches since the last reset_game
  last_op,                \* the last operation called on the engine
  ticks,                  \* update calls made while playing since the last reset_game
  ball_preset,            \* the preset in force when reset_ball created the ball
  collisions,             \* what the ball collided with in the last update
  replaced_fast,          \* whether the last operation replaced a ball that had
                          \* gained speed
  scores,                 \* HighScoreManager.scores
  score_file,             \* the list in the scores file, empty while there is none
  added,                  \* how many times each score of ScoreValues has been
                          \* passed to add_score
  game_over_handled,      \* PongFrame._game_over_handled as "True" or "False",
                          \* "absent" while the frame has no such attribute
  pending_calls,          \* the calls wx.CallAfter has queued, oldest first
  game_over_panel_shown,  \* game_over_panel.IsShown()
  game_over_score,        \* the score the overlay's label shows
  name_entry_shown,       \* game_over_name_entry.IsShown()
  menu_panel_shown,       \* menu_panel.IsShown()
  current_game_score,     \* PongFrame.current_game_score
  game_over_seen          \* whether the key timer has fired since the engine
                          \* entered 'game_over'

presetVars == <<difficulty, ai_difficulty, ball_speed, paddle_speed,
                speed_increase_factor, max_speed_multiplier>>

callbackVars == <<audio_callbacks, visual_callbacks, lighting_callbacks,
                  trail_callbacks, enable_trail>>

scoreVars == <<scores, score_file, added>>

frameVars == <<game_over_handled, pending_calls, game_over_panel_shown,
               game_over_score, name_entry_shown, menu_panel_shown,
               current_game_score, game_over_seen>>

vars == <<difficulty, ai_difficulty, ball_speed, paddle_speed, speed_increase_factor,
          max_speed_multiplier, score_left, score_right, game_state,
          last_ball_position, enable_trail, bounce_count, audio_callbacks,
          visual_callbacks, lighting_callbacks, paddle_left, paddle_right, ai, ball,
          events, goal_count, last_op, ticks, ball_preset, trail_callbacks,
          collisions, replaced_fast, scores, score_file, added, game_over_handled,
          pending_calls, game_over_panel_shown, game_over_score, name_entry_shown,
          menu_panel_shown, current_game_score, game_over_seen>>

field_width == FieldWidth * Scale

field_height == FieldHeight * Scale

Event(sink, name, args) == [sink |-> sink, name |-> name, args |-> args]

PresetOf_defaults_easy(name) ==
  IF name \in DOMAIN DIFFICULTY_PRESETS
  THEN DIFFICULTY_PRESETS[name]
  ELSE DIFFICULTY_PRESETS["easy"]

\* DIFFICULTY_PRESETS.get(difficulty, DIFFICULTY_PRESETS['medium'])
PresetOf(name) ==
  IF name \in DOMAIN DIFFICULTY_PRESETS
  THEN DIFFICULTY_PRESETS[name]
  ELSE DIFFICULTY_PRESETS["medium"]

\* PongGame._init_paddles
InitPaddleLeft(speed) ==
  Paddle(PADDLE_MARGIN * Scale,
         ((FieldHeight \div 2) - (PADDLE_HEIGHT \div 2)) * Scale,
         PADDLE_WIDTH * Scale, PADDLE_HEIGHT * Scale, speed * Scale)

InitPaddleRight(speed) ==
  Paddle((FieldWidth - PADDLE_MARGIN - PADDLE_WIDTH) * Scale,
         ((FieldHeight \div 2) - (PADDLE_HEIGHT \div 2)) * Scale,
         PADDLE_WIDTH * Scale, PADDLE_HEIGHT * Scale, speed * Scale)

NewBall_width_for_height(angle, direction, speed, increase, multiplier) ==
  Ball((FieldWidth \div 2) * Scale,
       (FieldWidth \div 2) * Scale,
       BALL_RADIUS * Scale,
       speed * Scale * direction,
       RoundDiv(speed * Scale * angle[1], angle[2]),
       increase,
       multiplier)

\* PongGame.reset_ball, for one outcome of the two random draws
NewBall(angle, direction, speed, increase, multiplier) ==
  Ball((FieldWidth \div 2) * Scale,
       (FieldHeight \div 2) * Scale,
       BALL_RADIUS * Scale,
       speed * Scale * direction,
       RoundDiv(speed * Scale * angle[1], angle[2]),
       increase,
       multiplier)

\* PongGame.check_collision: axis-aligned bounding boxes overlap
check_collision(b, p) ==
  LET br == Ball_get_rect(b)
      pr == Paddle_get_rect(p)
  IN  /\ br[3] >= pr[1]
      /\ br[1] <= pr[3]
      /\ br[4] >= pr[2]
      /\ br[2] <= pr[4]

\* PongGame._calculate_hit_position, as <<numerator, denominator>>
calculate_hit_position(b, p) ==
  <<b.position[2] - get_center_y(p), p.height \div 2>>

handle_paddle_hit_keeps_speed(b, p, side) ==
  LET moved == [b EXCEPT !.position =
                  <<IF side = "left"
                    THEN p.position[1] + p.width + b.radius
                    ELSE p.position[1] - b.radius,
                    b.position[2]>>]
      faster == reflect_x(moved)
      hit_position == calculate_hit_position(faster, p)
  IN  [faster EXCEPT !.velocity =
         <<faster.velocity[1],
           faster.velocity[2]
             + RoundDiv(hit_position[1] * PADDLE_HIT_VELOCITY_BOOST * Scale,
                        hit_position[2])>>]

handle_paddle_hit_no_spin(b, p, side) ==
  LET moved == [b EXCEPT !.position =
                  <<IF side = "left"
                    THEN p.position[1] + p.width + b.radius
                    ELSE p.position[1] - b.radius,
                    b.position[2]>>]
  IN  increase_speed(reflect_x(moved))

\* PongGame._handle_paddle_hit: the ball after the hit
handle_paddle_hit(b, p, side) ==
  LET moved == [b EXCEPT !.position =
                  <<IF side = "left"
                    THEN p.position[1] + p.width + b.radius
                    ELSE p.position[1] - b.radius,
                    b.position[2]>>]
      faster == increase_speed(reflect_x(moved))
      hit_position == calculate_hit_position(faster, p)
  IN  [faster EXCEPT !.velocity =
         <<faster.velocity[1],
           faster.velocity[2]
             + RoundDiv(hit_position[1] * PADDLE_HIT_VELOCITY_BOOST * Scale,
                        hit_position[2])>>]

\* PongGame._trigger_callbacks: the sinks invoked, in order
trigger_callbacks(event_type, args) ==
  IF event_type = "wall_bounce"
  THEN (IF "ball_bounce" \in audio_callbacks
        THEN <<Event("audio", "ball_bounce", <<args[2], field_height>>)>> ELSE <<>>)
       \o (IF "wall_bounce" \in visual_callbacks
           THEN <<Event("visual", "wall_bounce", args)>> ELSE <<>>)
       \o (IF "collision_flash" \in lighting_callbacks
           THEN <<Event("lighting", "collision_flash", <<>>)>> ELSE <<>>)
  ELSE IF event_type = "goal"
  THEN (IF "score" \in audio_callbacks
        THEN <<Event("audio", "score", args)>> ELSE <<>>)
       \o (IF "goal_flash" \in visual_callbacks
           THEN <<Event("visual", "goal_flash", args)>> ELSE <<>>)
       \o (IF "goal_flash" \in lighting_callbacks
           THEN <<Event("lighting", "goal_flash", args)>> ELSE <<>>)
  ELSE <<>>

normalize_ball_velocity_skipped(b) == b

\* PongGame._normalize_ball_velocity
normalize_ball_velocity(b) ==
  LET current_speed == Magnitude(b.velocity)
  IN  IF current_speed > 0
      THEN [b EXCEPT !.velocity =
              <<RoundDiv(b.velocity[1] * b.speed, current_speed),
                RoundDiv(b.velocity[2] * b.speed, current_speed)>>]
      ELSE b

handle_wall_collisions_unclamped(b) ==
  LET ball_x == b.position[1]
      ball_y == b.position[2]
  IN  IF ball_y - b.radius <= 0 \/ ball_y + b.radius >= field_height
      THEN LET clamped == ball_y
               bounced == [reflect_y(b) EXCEPT !.position = <<ball_x, clamped>>]
           IN  [ball |-> bounced,
                bounced |-> TRUE,
                events |->
                  (IF enable_trail THEN <<Event("trail", "color_change", <<>>)>> ELSE <<>>)
                  \o trigger_callbacks("wall_bounce", <<ball_x, clamped>>)]
      ELSE [ball |-> b, bounced |-> FALSE, events |-> <<>>]

handle_wall_collisions_no_reflect(b) ==
  LET ball_x == b.position[1]
      ball_y == b.position[2]
  IN  IF ball_y - b.radius <= 0 \/ ball_y + b.radius >= field_height
      THEN LET clamped == Max(b.radius, Min(field_height - b.radius, ball_y))
               bounced == [b EXCEPT !.position = <<ball_x, clamped>>]
           IN  [ball |-> bounced,
                bounced |-> TRUE,
                events |->
                  (IF enable_trail THEN <<Event("trail", "color_change", <<>>)>> ELSE <<>>)
                  \o trigger_callbacks("wall_bounce", <<ball_x, clamped>>)]
      ELSE [ball |-> b, bounced |-> FALSE, events |-> <<>>]

handle_wall_collisions_turns_back(b) ==
  LET ball_x == b.position[1]
      ball_y == b.position[2]
  IN  IF ball_y - b.radius <= 0 \/ ball_y + b.radius >= field_height
      THEN LET clamped == Max(b.radius, Min(field_height - b.radius, ball_y))
               bounced == [reflect_x(reflect_y(b)) EXCEPT
                             !.position = <<ball_x, clamped>>]
           IN  [ball |-> bounced,
                bounced |-> TRUE,
                events |->
                  (IF enable_trail THEN <<Event("trail", "color_change", <<>>)>> ELSE <<>>)
                  \o trigger_callbacks("wall_bounce", <<ball_x, clamped>>)]
      ELSE [ball |-> b, bounced |-> FALSE, events |-> <<>>]

handle_wall_collisions_keeps_color(b) ==
  LET ball_x == b.position[1]
      ball_y == b.position[2]
  IN  IF ball_y - b.radius <= 0 \/ ball_y + b.radius >= field_height
      THEN LET clamped == Max(b.radius, Min(field_height - b.radius, ball_y))
               bounced == [reflect_y(b) EXCEPT !.position = <<ball_x, clamped>>]
           IN  [ball |-> bounced,
                bounced |-> TRUE,
                events |->
                  trigger_callbacks("wall_bounce", <<ball_x, clamped>>)]
      ELSE [ball |-> b, bounced |-> FALSE, events |-> <<>>]

\* PongGame._handle_wall_collisions: the ball and the callbacks invoked
handle_wall_collisions(b) ==
  LET ball_x == b.position[1]
      ball_y == b.position[2]
  IN  IF ball_y - b.radius <= 0 \/ ball_y + b.radius >= field_height
      THEN LET clamped == Max(b.radius, Min(field_height - b.radius, ball_y))
               bounced == [reflect_y(b) EXCEPT !.position = <<ball_x, clamped>>]
           IN  [ball |-> bounced,
                bounced |-> TRUE,
                events |->
                  (IF enable_trail THEN <<Event("trail", "color_change", <<>>)>> ELSE <<>>)
                  \o trigger_callbacks("wall_bounce", <<ball_x, clamped>>)]
      ELSE [ball |-> b, bounced |-> FALSE, events |-> <<>>]

handle_paddle_collisions_counts_both(b, pl, pr, count) ==
  LET ball_x == b.position[1]
      ball_y == b.position[2]
      hit_left == check_collision(b, pl)
      b1 == IF hit_left THEN handle_paddle_hit(b, pl, "left") ELSE b
      count1 == IF hit_left THEN count + 1 ELSE count
      hit_right == check_collision(b1, pr)
      b2 == IF hit_right THEN handle_paddle_hit(b1, pr, "right") ELSE b1
      paddle_hit == IF hit_right THEN "right" ELSE IF hit_left THEN "left" ELSE "none"
      paddle == IF paddle_hit = "left" THEN pl ELSE pr
      hit_position == IF hit_right THEN calculate_hit_position(b2, pr)
                      ELSE calculate_hit_position(b1, pl)
  IN  [ball |-> b2,
       bounce_count |-> IF hit_right THEN count1 + 1 ELSE count1,
       hit_left |-> hit_left,
       hit_right |-> hit_right,
       events |->
         IF paddle_hit # "none"
         THEN (IF enable_trail THEN <<Event("trail", "color_change", <<>>)>> ELSE <<>>)
              \o (IF "paddle_hit" \in audio_callbacks
                  THEN <<Event("audio", "paddle_hit", <<hit_position, paddle.height>>)>>
                  ELSE <<>>)
              \o (IF "paddle_hit" \in visual_callbacks
                  THEN <<Event("visual", "paddle_hit", <<ball_x, ball_y>>)>> ELSE <<>>)
              \o (IF "collision_flash" \in lighting_callbacks
                  THEN <<Event("lighting", "collision_flash", <<>>)>> ELSE <<>>)
         ELSE <<>>]

\* PongGame._handle_paddle_collisions: the ball, the bounce count and the
\* callbacks invoked
handle_paddle_collisions(b, pl, pr, count) ==
  LET ball_x == b.position[1]
      ball_y == b.position[2]
      hit_left == check_collision(b, pl)
      b1 == IF hit_left THEN handle_paddle_hit(b, pl, "left") ELSE b
      count1 == IF hit_left THEN count + 1 ELSE count
      hit_right == check_collision(b1, pr)
      b2 == IF hit_right THEN handle_paddle_hit(b1, pr, "right") ELSE b1
      paddle_hit == IF hit_right THEN "right" ELSE IF hit_left THEN "left" ELSE "none"
      paddle == IF paddle_hit = "left" THEN pl ELSE pr
      hit_position == IF hit_right THEN calculate_hit_position(b2, pr)
                      ELSE calculate_hit_position(b1, pl)
  IN  [ball |-> b2,
       bounce_count |-> count1,
       hit_left |-> hit_left,
       hit_right |-> hit_right,
       events |->
         IF paddle_hit # "none"
         THEN (IF enable_trail THEN <<Event("trail", "color_change", <<>>)>> ELSE <<>>)
              \o (IF "paddle_hit" \in audio_callbacks
                  THEN <<Event("audio", "paddle_hit", <<hit_position, paddle.height>>)>>
                  ELSE <<>>)
              \o (IF "paddle_hit" \in visual_callbacks
                  THEN <<Event("visual", "paddle_hit", <<ball_x, ball_y>>)>> ELSE <<>>)
              \o (IF "collision_flash" \in lighting_callbacks
                  THEN <<Event("lighting", "collision_flash", <<>>)>> ELSE <<>>)
         ELSE <<>>]

handle_goals_plays_on(b, state, left, right) ==
  LET ball_x == b.position[1]
  IN  IF ball_x < 0
      THEN [game_state |-> state, goals |-> 1,
            score_left |-> left, score_right |-> right, ball |-> b,
            events |-> trigger_callbacks("goal", <<FALSE>>)]
      ELSE IF ball_x > field_width
      THEN [game_state |-> state, goals |-> 1,
            score_left |-> left, score_right |-> right, ball |-> b,
            events |-> trigger_callbacks("goal", <<TRUE>>)]
      ELSE [game_state |-> state, goals |-> 0,
            score_left |-> left, score_right |-> right, ball |-> b,
            events |-> <<>>]

handle_goals_awards_point(b, state, left, right) ==
  LET ball_x == b.position[1]
      respawned == [b EXCEPT !.position = <<(FieldWidth \div 2) * Scale,
                                            (FieldHeight \div 2) * Scale>>]
  IN  IF ball_x < 0
      THEN [game_state |-> "game_over", goals |-> 1,
            score_left |-> left, score_right |-> right + 1, ball |-> respawned,
            events |-> trigger_callbacks("goal", <<FALSE>>)]
      ELSE IF ball_x > field_width
      THEN [game_state |-> "game_over", goals |-> 1,
            score_left |-> left + 1, score_right |-> right, ball |-> respawned,
            events |-> trigger_callbacks("goal", <<TRUE>>)]
      ELSE [game_state |-> state, goals |-> 0,
            score_left |-> left, score_right |-> right, ball |-> b,
            events |-> <<>>]

\* PongGame._handle_goals: the game state, the scores and the ball it leaves,
\* the callbacks invoked and the number of 'goal' dispatches
handle_goals(b, state, left, right) ==
  LET ball_x == b.position[1]
  IN  IF ball_x < 0
      THEN [game_state |-> "game_over", goals |-> 1,
            score_left |-> left, score_right |-> right, ball |-> b,
            events |-> trigger_callbacks("goal", <<FALSE>>)]
      ELSE IF ball_x > field_width
      THEN [game_state |-> "game_over", goals |-> 1,
            score_left |-> left, score_right |-> right, ball |-> b,
            events |-> trigger_callbacks("goal", <<TRUE>>)]
      ELSE [game_state |-> state, goals |-> 0,
            score_left |-> left, score_right |-> right, ball |-> b,
            events |-> <<>>]

\* ------------------------------------------------- engine.py: operations

\* the sinks a client registers with set_audio_callbacks, set_visual_callbacks
\* and set_lighting_callbacks once the engine is constructed: none, or all
CallbackConfigs ==
  { [audio |-> {}, visual |-> {}, lighting |-> {}],
    [audio |-> {"ball_bounce", "paddle_hit", "score"},
     visual |-> {"goal_flash", "paddle_hit", "wall_bounce"},
     lighting |-> {"goal_flash", "collision_flash"}] }

\* PongGame.__init__ with one of the presets, then the sinks registered
Init ==
  \E name \in PresetNames, angle \in Angles, direction \in {-1, 1},
     cb \in CallbackConfigs :
    LET preset == PresetOf(name)
    IN  /\ difficulty = name
        /\ ai_difficulty = preset.ai_difficulty
        /\ ball_speed = preset.ball_speed
        /\ paddle_speed = preset.paddle_speed
        /\ speed_increase_factor = preset.speed_increase
        /\ max_speed_multiplier = preset.max_speed_mult
        /\ score_left = 0
        /\ score_right = 0
        /\ game_state = "menu"
        /\ enable_trail = FALSE
        /\ bounce_count = 0
        /\ audio_callbacks = cb.audio
        /\ visual_callbacks = cb.visual
        /\ lighting_callbacks = cb.lighting
        /\ trail_callbacks = FALSE
        /\ paddle_left = InitPaddleLeft(preset.paddle_speed)
        /\ paddle_right = InitPaddleRight(preset.paddle_speed)
        /\ ai = SimpleAI(preset.ai_difficulty)
        /\ ball = NewBall(angle, direction, preset.ball_speed, preset.speed_increase,
                          preset.max_speed_mult)
        /\ last_ball_position = ball.position
        /\ events = <<>>
        /\ goal_count = 0
        /\ last_op = "init"
        /\ ticks = 0
        /\ ball_preset = name
        /\ collisions = {}
        /\ replaced_fast = FALSE
        /\ scores = <<>>
        /\ score_file = <<>>
        /\ added = [score \in ScoreValues |-> 0]
        /\ game_over_handled = "absent"
        /\ pending_calls = <<>>
        /\ game_over_panel_shown = FALSE
        /\ game_over_score = None
        /\ name_entry_shown = FALSE
        /\ menu_panel_shown = TRUE
        /\ current_game_score = None
        /\ game_over_seen = FALSE

\* the command the driver issues to the player's paddle before an update
Commands == {"none", "move_up", "move_down", "stop"}

Steer(p, command) ==
  CASE command = "move_up" -> move_up(p)
    [] command = "move_down" -> move_down(p)
    [] command = "stop" -> stop(p)
    [] OTHER -> p

\* One frame of the driver: while a match is played it may steer the player's
\* paddle (paddle_left.move_up(), move_down() or stop()), then it calls
\* PongGame.update(delta_time).  At most cap frames per match are explored.
UpdateWithin(command, delta_time, cap) ==
  /\ last_op' = "update"
  /\ replaced_fast' = FALSE
  /\ UNCHANGED <<presetVars, callbackVars, ai, ball_preset, scoreVars, frameVars>>
  /\ IF game_state # "playing"
     THEN /\ command = "none"
          /\ paddle_left' = stop(paddle_left)
          /\ paddle_right' = stop(paddle_right)
          /\ events' = <<>>
          /\ collisions' = {}
          /\ UNCHANGED <<game_state, last_ball_position, bounce_count, ball,
                         goal_count, ticks, score_left, score_right>>
     ELSE /\ ticks < cap
          /\ command \in Commands
          /\ ticks' = ticks + 1
          \* each step's result is bound once, in the order update runs them
          /\ \E steered \in {SimpleAI_update(ai, paddle_right, ball)} :
             \E pl \in {Paddle_update(Steer(paddle_left, command), delta_time,
                                      field_height)} :
             \E pr \in {Paddle_update(steered, delta_time, field_height)} :
             \E moved \in {Ball_update(ball, delta_time)} :
               /\ paddle_left' = pl
               /\ paddle_right' = pr
               /\ IF enable_trail /\ ~trail_callbacks
                  THEN \* self._trail_callback was never set: AttributeError
                       \* leaves update after the ball has moved
                       /\ ball' = moved
                       /\ events' = <<Event("error", "AttributeError",
                                            <<"_trail_callback">>)>>
                       /\ collisions' = {}
                       /\ UNCHANGED <<game_state, last_ball_position, bounce_count,
                                      goal_count, score_left, score_right>>
                  ELSE \E trail \in {IF enable_trail
                                      THEN <<Event("trail", "trail",
                                                   <<last_ball_position,
                                                     moved.position>>)>>
                                      ELSE <<>>} :
                       \E wall \in {handle_wall_collisions(moved)} :
                       \E hit \in {handle_paddle_collisions(wall.ball, pl, pr,
                                                           bounce_count)} :
                       \E goal \in {handle_goals(hit.ball, game_state, score_left,
                                                 score_right)} :
                       \E final \in {normalize_ball_velocity(goal.ball)} :
                         /\ ball' = final
                         /\ score_left' = goal.score_left
                         /\ score_right' = goal.score_right
                         /\ bounce_count' = hit.bounce_count
                         /\ game_state' = goal.game_state
                         /\ goal_count' = goal_count + goal.goals
                         /\ events' = trail \o wall.events \o hit.events
                                        \o goal.events
                         /\ last_ball_position' = final.position
                         /\ collisions' =
                              (IF wall.bounced THEN {"wall"} ELSE {})
                              \cup (IF hit.hit_left THEN {"left"} ELSE {})
                              \cup (IF hit.hit_right THEN {"right"} ELSE {})

Update ==
  \E command \in Commands, delta_time \in DeltaTimes :
    UpdateWithin(command, delta_time, MaxTicks)

\* PongGame.pause: the game state it leaves
pause_toggles_any(state) ==
  IF state = "paused" THEN "playing" ELSE "paused"

pause_never_resumes(state) ==
  IF state = "playing" THEN "paused" ELSE state

pause(state) ==
  IF state = "playing" THEN "paused"
  ELSE IF state = "paused" THEN "playing"
  ELSE state

Pause ==
  /\ last_op' = "pause"
  /\ replaced_fast' = FALSE
  /\ game_state' = pause(game_state)
  /\ events' = <<>>
  /\ collisions' = {}
  /\ UNCHANGED <<presetVars, callbackVars, score_left, score_right,
                 last_ball_position, bounce_count, paddle_left, paddle_right, ai,
                 ball, goal_count, ticks, ball_preset, scoreVars, frameVars>>

reset_game_keeps_count(angle, direction) ==
  /\ score_left' = 0
  /\ score_right' = 0
  /\ UNCHANGED bounce_count
  /\ game_state' = "playing"
  /\ ball' = NewBall(angle, direction, ball_speed, speed_increase_factor,
                     max_speed_multiplier)
  /\ last_ball_position' = ball'.position
  /\ goal_count' = 0
  /\ ticks' = 0
  /\ ball_preset' = difficulty
  /\ replaced_fast' = (ball.speed > ball.base_speed)

reset_game_keeps_ball(angle, direction) ==
  /\ score_left' = 0
  /\ score_right' = 0
  /\ bounce_count' = 0
  /\ game_state' = "playing"
  /\ UNCHANGED ball
  /\ last_ball_position' = ball'.position
  /\ goal_count' = 0
  /\ ticks' = 0
  /\ ball_preset' = difficulty
  /\ replaced_fast' = (ball.speed > ball.base_speed)

reset_game_keeps_speed(angle, direction) ==
  /\ score_left' = 0
  /\ score_right' = 0
  /\ bounce_count' = 0
  /\ game_state' = "playing"
  /\ ball' = [NewBall(angle, direction, ball_speed, speed_increase_factor,
                      max_speed_multiplier) EXCEPT !.speed = ball.speed]
  /\ last_ball_position' = ball'.position
  /\ goal_count' = 0
  /\ ticks' = 0
  /\ ball_preset' = difficulty
  /\ replaced_fast' = (ball.speed > ball.base_speed)

\* PongGame.reset_game, with reset_ball's two random draws
reset_game(angle, direction) ==
  /\ score_left' = 0
  /\ score_right' = 0
  /\ bounce_count' = 0
  /\ game_state' = "playing"
  /\ ball' = NewBall(angle, direction, ball_speed, speed_increase_factor,
                     max_speed_multiplier)
  /\ last_ball_position' = ball'.position
  /\ goal_count' = 0
  /\ ticks' = 0
  /\ ball_preset' = difficulty
  /\ replaced_fast' = (ball.speed > ball.base_speed)

ResetGame ==
  /\ last_op' = "reset_game"
  /\ \E angle \in Angles, direction \in {-1, 1} : reset_game(angle, direction)
  /\ events' = <<>>
  /\ collisions' = {}
  /\ UNCHANGED <<presetVars, callbackVars, paddle_left, paddle_right, ai, scoreVars, frameVars>>

\* PongGame.start_game
StartGame ==
  /\ last_op' = "start_game"
  /\ events' = <<>>
  /\ collisions' = {}
  /\ UNCHANGED <<presetVars, callbackVars, paddle_left, paddle_right, ai, scoreVars, frameVars>>
  /\ IF game_state = "menu"
     THEN \E angle \in Angles, direction \in {-1, 1} : reset_game(angle, direction)
     ELSE /\ replaced_fast' = FALSE
          /\ UNCHANGED <<score_left, score_right, bounce_count, game_state, ball,
                         last_ball_position, goal_count, ticks, ball_preset>>

ToMenu_clears_count ==
  /\ last_op' = "to_menu"
  /\ replaced_fast' = FALSE
  /\ game_state' = "menu"
  /\ events' = <<>>
  /\ collisions' = {}
  /\ bounce_count' = 0
  /\ UNCHANGED <<presetVars, callbackVars, score_left, score_right,
                 last_ball_position, paddle_left, paddle_right, ai,
                 ball, goal_count, ticks, ball_preset, scoreVars, frameVars>>

\* PongGame.to_menu
ToMenu ==
  /\ last_op' = "to_menu"
  /\ replaced_fast' = FALSE
  /\ game_state' = "menu"
  /\ events' = <<>>
  /\ collisions' = {}
  /\ UNCHANGED <<presetVars, callbackVars, score_left, score_right,
                 last_ball_position, bounce_count, paddle_left, paddle_right, ai,
                 ball, goal_count, ticks, ball_preset, scoreVars, frameVars>>

SetDifficulty_rebalances_ball ==
  /\ last_op' = "set_difficulty"
  /\ replaced_fast' = FALSE
  /\ \E name \in PresetNames :
       LET preset == PresetOf(name)
       IN  /\ difficulty' = name
           /\ ai_difficulty' = preset.ai_difficulty
           /\ ball_speed' = preset.ball_speed
           /\ paddle_speed' = preset.paddle_speed
           /\ speed_increase_factor' = preset.speed_increase
           /\ max_speed_multiplier' = preset.max_speed_mult
           /\ ai' = [ai EXCEPT !.difficulty = preset.ai_difficulty]
           /\ ball' = [ball EXCEPT !.speed_increase_factor = preset.speed_increase]
  /\ events' = <<>>
  /\ collisions' = {}
  /\ UNCHANGED <<callbackVars, score_left, score_right, game_state,
                 last_ball_position, bounce_count, paddle_left, paddle_right,
                 goal_count, ticks, ball_preset, scoreVars, frameVars>>

\* PongGame.set_difficulty
SetDifficulty ==
  /\ last_op' = "set_difficulty"
  /\ replaced_fast' = FALSE
  /\ \E name \in PresetNames :
       LET preset == PresetOf(name)
       IN  /\ difficulty' = name
           /\ ai_difficulty' = preset.ai_difficulty
           /\ ball_speed' = preset.ball_speed
           /\ paddle_speed' = preset.paddle_speed
           /\ speed_increase_factor' = preset.speed_increase
           /\ max_speed_multiplier' = preset.max_speed_mult
           /\ ai' = [ai EXCEPT !.difficulty = preset.ai_difficulty]
  /\ events' = <<>>
  /\ collisions' = {}
  /\ UNCHANGED <<callbackVars, score_left, score_right, game_state,
                 last_ball_position, bounce_count, paddle_left, paddle_right,
                 ball, goal_count, ticks, ball_preset, scoreVars, frameVars>>

Next ==
  \/ Update
  \/ Pause
  \/ ResetGame
  \/ StartGame
  \/ ToMenu

Spec == Init /\ [][Next]_vars

\* A long rally: the driver never steers the player's paddle and calls update
\* once per timer frame, so that a ball lives through many paddle hits; the
\* match is restarted when it is over or has been explored to its bound.
RallyUpdate ==
  \E delta_time \in RallyDeltaTimes : UpdateWithin("none", delta_time, MaxRallyTicks)

RallyResetGame ==
  /\ game_state = "game_over" \/ ticks = MaxRallyTicks
  /\ ResetGame

NextRally ==
  \/ RallyUpdate
  \/ SetDifficulty
  \/ StartGame
  \/ RallyResetGame

SpecRally == Init /\ [][NextRally]_vars

\* The entities and the AI driven directly, as a client of entities.py and
\* ai.py may: the ball is placed about the AI's paddle, SimpleAI.update is
\* called with the ball or with None, the paddle is moved by Paddle.update and
\* the difficulty is changed.
engineFrame == <<presetVars, callbackVars, score_left, score_right, game_state,
                 last_ball_position, bounce_count, paddle_left, goal_count,
                 ticks, ball_preset>>

harnessFrame == <<engineFrame, scoreVars, frameVars>>

\* ball.position[1] = y
PlaceBall ==
  /\ last_op' = "place_ball"
  /\ replaced_fast' = FALSE
  /\ \E offset \in AIOffsets :
       ball' = [ball EXCEPT !.position = <<ball.position[1],
                                           get_center_y(paddle_right) + offset>>]
  /\ events' = <<>>
  /\ collisions' = {}
  /\ UNCHANGED <<harnessFrame, ai, paddle_right>>

\* ai.update(ball, delta_time)
AIUpdate ==
  /\ last_op' = "ai_update"
  /\ replaced_fast' = FALSE
  /\ paddle_right' = SimpleAI_update(ai, paddle_right, ball)
  /\ events' = <<>>
  /\ collisions' = {}
  /\ UNCHANGED <<harnessFrame, ai, ball>>

\* ai.update(None, delta_time)
AIUpdateNone ==
  /\ last_op' = "ai_update_none"
  /\ replaced_fast' = FALSE
  /\ paddle_right' = SimpleAI_update(ai, paddle_right, None)
  /\ events' = <<>>
  /\ collisions' = {}
  /\ UNCHANGED <<harnessFrame, ai, ball>>

\* paddle_right.update(delta_time, field_height)
AIPaddleUpdate ==
  /\ last_op' = "paddle_update"
  /\ replaced_fast' = FALSE
  /\ \E delta_time \in DeltaTimes :
       paddle_right' = Paddle_update(paddle_right, delta_time, field_height)
  /\ events' = <<>>
  /\ collisions' = {}
  /\ UNCHANGED <<harnessFrame, ai, ball>>

NextEntities ==
  \/ PlaceBall
  \/ AIUpdate
  \/ AIUpdateNone
  \/ AIPaddleUpdate
  \/ SetDifficulty

SpecEntities == Init /\ [][NextEntities]_vars

\* The trail: a client switches the public attribute enable_trail and may call
\* set_trail_callbacks, and the driver calls update without steering.
\* game.enable_trail = value
SetEnableTrail ==
  /\ last_op' = "enable_trail"
  /\ replaced_fast' = FALSE
  /\ \E value \in BOOLEAN : enable_trail' = value
  /\ events' = <<>>
  /\ collisions' = {}
  /\ UNCHANGED <<presetVars, audio_callbacks, visual_callbacks, lighting_callbacks,
                 trail_callbacks, score_left, score_right, game_state,
                 last_ball_position, bounce_count, paddle_left, paddle_right, ai,
                 ball, goal_count, ticks, ball_preset, scoreVars, frameVars>>

\* PongGame.set_trail_callbacks
SetTrailCallbacks ==
  /\ last_op' = "set_trail_callbacks"
  /\ replaced_fast' = FALSE
  /\ trail_callbacks' = TRUE
  /\ events' = <<>>
  /\ collisions' = {}
  /\ UNCHANGED <<presetVars, audio_callbacks, visual_callbacks, lighting_callbacks,
                 enable_trail, score_left, score_right, game_state,
                 last_ball_position, bounce_count, paddle_left, paddle_right, ai,
                 ball, goal_count, ticks, ball_preset, scoreVars, frameVars>>

TrailUpdate ==
  \E delta_time \in DeltaTimes : UpdateWithin("none", delta_time, MaxTicks)

NextTrail ==
  \/ TrailUpdate
  \/ SetEnableTrail
  \/ SetTrailCallbacks
  \/ StartGame

SpecTrail == Init /\ [][NextTrail]_vars

\* Matches played one after another under changing presets: the driver calls
\* update without steering, and the menu's operations run between matches.
MatchUpdate ==
  \E delta_time \in DeltaTimes : UpdateWithin("none", delta_time, MaxTicks)

NextMatches ==
  \/ MatchUpdate
  \/ SetDifficulty
  \/ ResetGame
  \/ StartGame
  \/ ToMenu

SpecMatches == Init /\ [][NextMatches]_vars

\* Any difficulty name: the engine is constructed with, and set_difficulty is
\* called with, a string that may be no key of DIFFICULTY_PRESETS (the
\* settings file's value is passed on unchecked), and matches are played.
\* PongGame.__init__ with any name, then the sinks registered
InitAnyName ==
  \E name \in DifficultyNames, angle \in Angles, direction \in {-1, 1},
     cb \in CallbackConfigs :
    LET preset == PresetOf(name)
    IN  /\ difficulty = name
        /\ ai_difficulty = preset.ai_difficulty
        /\ ball_speed = preset.ball_speed
        /\ paddle_speed = preset.paddle_speed
        /\ speed_increase_factor = preset.speed_increase
        /\ max_speed_multiplier = preset.max_speed_mult
        /\ score_left = 0
        /\ score_right = 0
        /\ game_state = "menu"
        /\ enable_trail = FALSE
        /\ bounce_count = 0
        /\ audio_callbacks = cb.audio
        /\ visual_callbacks = cb.visual
        /\ lighting_callbacks = cb.lighting
        /\ trail_callbacks = FALSE
        /\ paddle_left = InitPaddleLeft(preset.paddle_speed)
        /\ paddle_right = InitPaddleRight(preset.paddle_speed)
        /\ ai = SimpleAI(preset.ai_difficulty)
        /\ ball = NewBall(angle, direction, preset.ball_speed, preset.speed_increase,
                          preset.max_speed_mult)
        /\ last_ball_position = ball.position
        /\ events = <<>>
        /\ goal_count = 0
        /\ last_op = "init"
        /\ ticks = 0
        /\ ball_preset = name
        /\ collisions = {}
        /\ replaced_fast = FALSE
        /\ scores = <<>>
        /\ score_file = <<>>
        /\ added = [score \in ScoreValues |-> 0]
        /\ game_over_handled = "absent"
        /\ pending_calls = <<>>
        /\ game_over_panel_shown = FALSE
        /\ game_over_score = None
        /\ name_entry_shown = FALSE
        /\ menu_panel_shown = TRUE
        /\ current_game_score = None
        /\ game_over_seen = FALSE

\* PongGame.set_difficulty with any name
SetAnyDifficulty ==
  /\ last_op' = "set_difficulty"
  /\ replaced_fast' = FALSE
  /\ \E name \in DifficultyNames :
       LET preset == PresetOf(name)
       IN  /\ difficulty' = name
           /\ ai_difficulty' = preset.ai_difficulty
           /\ ball_speed' = preset.ball_speed
           /\ paddle_speed' = preset.paddle_speed
           /\ speed_increase_factor' = preset.speed_increase
           /\ max_speed_multiplier' = preset.max_speed_mult
           /\ ai' = [ai EXCEPT !.difficulty = preset.ai_difficulty]
  /\ events' = <<>>
  /\ collisions' = {}
  /\ UNCHANGED <<callbackVars, score_left, score_right, game_state,
                 last_ball_position, bounce_count, paddle_left, paddle_right,
                 ball, goal_count, ticks, ball_preset, scoreVars, frameVars>>

NamesUpdate ==
  \E delta_time \in DeltaTimes : UpdateWithin("none", delta_time, MaxTicks)

NextNames ==
  \/ SetAnyDifficulty
  \/ StartGame
  \/ NamesUpdate

SpecNames == InitAnyName /\ [][NextNames]_vars

\* The ball's reflections called directly, as a client of entities.py may,
\* on the balls that matches produce.
\* ball.reflect_x()
ReflectX ==
  /\ last_op' = "reflect_x"
  /\ replaced_fast' = FALSE
  /\ ball' = reflect_x(ball)
  /\ events' = <<>>
  /\ collisions' = {}
  /\ UNCHANGED <<harnessFrame, ai, paddle_right>>

\* ball.reflect_y()
ReflectY ==
  /\ last_op' = "reflect_y"
  /\ replaced_fast' = FALSE
  /\ ball' = reflect_y(ball)
  /\ events' = <<>>
  /\ collisions' = {}
  /\ UNCHANGED <<harnessFrame, ai, paddle_right>>

ReflectUpdate ==
  \E delta_time \in DeltaTimes : UpdateWithin("none", delta_time, MaxTicks)

NextReflect ==
  \/ ReflectX
  \/ ReflectY
  \/ StartGame
  \/ ReflectUpdate

SpecReflect == Init /\ [][NextReflect]_vars

\* Frames as the timer delivers them: the driver never steers and calls update
\* with the time since the last frame, which is zero when two timer events read
\* the same clock value.
FrameUpdate ==
  \E delta_time \in FrameDeltaTimes :
    UpdateWithin("none", delta_time, MaxFrameTicks)

NextFrames ==
  \/ FrameUpdate
  \/ StartGame

SpecFrames == Init /\ [][NextFrames]_vars

\* A ball at rest: a client replaces the ball by one built from a zero-length
\* velocity, in mid-field, flush with the face of the left paddle or touching
\* the top wall, and the driver calls update.
\* game.ball = Ball(x, y, BALL_RADIUS, 0, 0, speed_increase_factor,
\*                  max_speed_multiplier)
StillBall ==
  /\ last_op' = "still_ball"
  /\ replaced_fast' = FALSE
  /\ \E position \in
         { <<(FieldWidth \div 2) * Scale, (FieldHeight \div 2) * Scale>>,
           <<paddle_left.position[1] + paddle_left.width + BALL_RADIUS * Scale,
             get_center_y(paddle_left) + 10 * Scale>>,
           <<(FieldWidth \div 2) * Scale, BALL_RADIUS * Scale>> } :
       ball' = Ball(position[1], position[2], BALL_RADIUS * Scale, 0, 0,
                    speed_increase_factor, max_speed_multiplier)
  /\ events' = <<>>
  /\ collisions' = {}
  /\ UNCHANGED <<harnessFrame, ai, paddle_right>>

StillUpdate ==
  \E delta_time \in FrameDeltaTimes :
    UpdateWithin("none", delta_time, MaxFrameTicks)

NextStill ==
  \/ StillBall
  \/ StillUpdate
  \/ StartGame

SpecStill == Init /\ [][NextStill]_vars

\* The AI tracking a held ball in a tall field: the ball is placed once about
\* the AI's paddle, then each frame runs the two lines of update that move the
\* AI's paddle, ai.update(ball, delta_time) and
\* paddle_right.update(delta_time, field_height).
TrackPlace ==
  /\ last_op = "init"
  /\ last_op' = "track_place"
  /\ replaced_fast' = FALSE
  /\ \E offset \in TrackOffsets :
       ball' = [ball EXCEPT !.position = <<ball.position[1],
                                           get_center_y(paddle_right) + offset>>]
  /\ events' = <<>>
  /\ collisions' = {}
  /\ UNCHANGED <<harnessFrame, ai, paddle_right>>

Track ==
  /\ last_op \in {"track_place", "track"}
  /\ last_op' = "track"
  /\ replaced_fast' = FALSE
  /\ \E delta_time \in TrackDeltaTimes :
       paddle_right' = Paddle_update(SimpleAI_update(ai, paddle_right, ball),
                                     delta_time, TrackFieldHeight * Scale)
  /\ events' = <<>>
  /\ collisions' = {}
  /\ UNCHANGED <<harnessFrame, ai, ball>>

NextTracking ==
  \/ TrackPlace
  \/ Track

SpecTracking == Init /\ [][NextTracking]_vars

\* f[0] + ... + f[n]
RECURSIVE SumTo(_, _)
SumTo(f, n) == IF n < 0 THEN 0 ELSE f[n] + SumTo(f, n - 1)

\* The leaderboard: a client calls add_score, and load_scores as the game-over
\* dialog does after it.
\* high_score_manager.add_score(name, score)
AddScore ==
  /\ last_op' = "add_score"
  /\ replaced_fast' = FALSE
  /\ \E name \in ScoreNames, score \in ScoreValues :
       /\ SumTo(added, MaxScore) < MaxAdds
       /\ scores' = add_score(scores, name, score)
       /\ score_file' = scores'
       /\ added' = [added EXCEPT ![score] = @ + 1]
  /\ events' = <<>>
  /\ collisions' = {}
  /\ UNCHANGED <<engineFrame, ai, ball, paddle_right, frameVars>>

\* high_score_manager.load_scores()
LoadScores ==
  /\ last_op' = "load_scores"
  /\ replaced_fast' = FALSE
  /\ scores' = load_scores(score_file)
  /\ events' = <<>>
  /\ collisions' = {}
  /\ UNCHANGED <<engineFrame, ai, ball, paddle_right, score_file, added, frameVars>>

NextScores ==
  \/ AddScore
  \/ LoadScores

SpecScores == Init /\ [][NextScores]_vars

\* ------------------------------------------------------------------ claims

\* C1: game_state is always one of menu, playing, paused, game_over, and every
\* change of it is menu->playing, playing->paused, paused->playing,
\* playing->game_over, game_over->playing or any state->menu; game_over is
\* entered only from playing and only by update, paused only from playing.
AllowedTransitions ==
  { <<"menu", "playing">>, <<"playing", "paused">>, <<"paused", "playing">>,
    <<"playing", "game_over">>, <<"game_over", "playing">> }
  \cup { <<s, "menu">> : s \in GameStates }

C1_Transitions ==
  /\ game_state \in GameStates
  /\ [][/\ game_state' \in GameStates
        /\ game_state' # game_state =>
             /\ <<game_state, game_state'>> \in AllowedTransitions
             /\ game_state' = "game_over" =>
                  game_state = "playing" /\ last_op' = "update"
             /\ game_state' = "paused" => game_state = "playing"]_vars

\* a match that ended: game_over entered by an update, with a goal dispatched
C1_Witness ==
  /\ game_state = "game_over"
  /\ last_op = "update"
  /\ goal_count = 1

\* C2: update called while the game is not being played stops both paddles,
\* leaves the ball, the paddles' positions, the scores, the bounce count and
\* the game state as they are, and invokes no callback.
C2_IdleUpdate ==
  [][(last_op' = "update" /\ game_state # "playing") =>
       /\ paddle_left'.direction = 0
       /\ paddle_right'.direction = 0
       /\ ball' = ball
       /\ paddle_left'.position = paddle_left.position
       /\ paddle_right'.position = paddle_right.position
       /\ UNCHANGED <<score_left, score_right, bounce_count, game_state>>
       /\ events' = <<>>]_vars

\* an update made while paused in mid-match: both paddles stopped, away from
\* where they started
C2_Witness ==
  /\ last_op = "update"
  /\ game_state = "paused"
  /\ ticks > 0
  /\ paddle_left.direction = 0
  /\ paddle_right.direction = 0
  /\ paddle_left.position # InitPaddleLeft(paddle_speed).position
  /\ paddle_right.position # InitPaddleRight(paddle_speed).position

\* C3: an update during play that leaves the ball left of the field ends the
\* match and invokes the goal callbacks with player_left = FALSE; one that
\* leaves it right of the field ends the match and invokes them with
\* player_left = TRUE; between two reset_game calls the goal event is
\* dispatched at most once.
GoalDispatched(evs, player_left) ==
  /\ "score" \in audio_callbacks =>
       \E i \in 1..Len(evs) : evs[i] = Event("audio", "score", <<player_left>>)
  /\ "goal_flash" \in visual_callbacks =>
       \E i \in 1..Len(evs) : evs[i] = Event("visual", "goal_flash", <<player_left>>)
  /\ "goal_flash" \in lighting_callbacks =>
       \E i \in 1..Len(evs) : evs[i] = Event("lighting", "goal_flash", <<player_left>>)
  /\ \A i, j \in 1..Len(evs) :
       evs[i].name \in {"score", "goal_flash"} =>
         /\ evs[i].args = <<player_left>>
         /\ evs[j].name = evs[i].name /\ evs[j].sink = evs[i].sink => i = j

C3_Goal ==
  [][/\ (last_op' = "update" /\ game_state = "playing" /\ ball'.position[1] < 0) =>
          /\ game_state' = "game_over"
          /\ goal_count' = goal_count + 1
          /\ GoalDispatched(events', FALSE)
     /\ (last_op' = "update" /\ game_state = "playing"
           /\ ball'.position[1] > field_width) =>
          /\ game_state' = "game_over"
          /\ goal_count' = goal_count + 1
          /\ GoalDispatched(events', TRUE)
     /\ goal_count' <= 1]_vars

\* the player missed: the ball is left of the field, the match is over and
\* every registered sink has been told that the right side scored
C3_Witness ==
  /\ last_op = "update"
  /\ game_state = "game_over"
  /\ ball.position[1] < 0
  /\ goal_count = 1
  /\ \E i \in 1..Len(events) : events[i] = Event("audio", "score", <<FALSE>>)
  /\ \E i \in 1..Len(events) : events[i] = Event("lighting", "goal_flash", <<FALSE>>)

\* a ball as reset_ball spawns it: at the field centre, at its base speed,
\* moving left or right at the preset's ball speed
NewlySpawned(b) ==
  /\ b.position = <<(FieldWidth \div 2) * Scale, (FieldHeight \div 2) * Scale>>
  /\ b.speed = b.base_speed
  /\ Abs(b.velocity[1]) = ball_speed * Scale

\* C4: start_game called in any state but menu changes nothing; called in
\* menu it leaves the game playing with both scores and the bounce count 0
\* and a newly spawned ball.
C4_StartGame ==
  [][last_op' = "start_game" =>
       IF game_state = "menu"
       THEN /\ game_state' = "playing"
            /\ score_left' = 0
            /\ score_right' = 0
            /\ bounce_count' = 0
            /\ NewlySpawned(ball')
       ELSE UNCHANGED <<game_state, score_left, score_right, bounce_count, ball>>]_vars

\* start_game called while a match is paused in which the player has returned
\* the ball: the match is still paused, its bounce count and its ball kept
C4_Witness ==
  /\ last_op = "start_game"
  /\ game_state = "paused"
  /\ bounce_count > 0
  /\ ~NewlySpawned(ball)

\* C5: pause maps playing to paused and paused to playing, is a no-op in menu
\* and game_over, and never changes the scores, the bounce count, the ball or
\* the paddles' positions; two pauses in a row restore the game state.
C5_Pause ==
  [][last_op' = "pause" =>
       /\ game_state = "playing" => game_state' = "paused"
       /\ game_state = "paused" => game_state' = "playing"
       /\ game_state \in {"menu", "game_over"} => game_state' = game_state
       /\ ball' = ball
       /\ paddle_left'.position = paddle_left.position
       /\ paddle_right'.position = paddle_right.position
       /\ UNCHANGED <<score_left, score_right, bounce_count>>]_vars

\* a match resumed by the second of two pauses, after the player returned the
\* ball
C5_Witness ==
  /\ last_op = "pause"
  /\ game_state = "playing"
  /\ bounce_count > 0

\* C6: reset_game, in whichever state it is called, leaves both scores and the
\* bounce count 0, the game playing and a new ball at the field centre.
C6_ResetGame ==
  last_op = "reset_game" =>
    /\ score_left = 0
    /\ score_right = 0
    /\ bounce_count = 0
    /\ game_state = "playing"
    /\ ball.position = <<(FieldWidth \div 2) * Scale, (FieldHeight \div 2) * Scale>>
    /\ ball.speed = ball.base_speed

\* a match reset after the paddles have moved away from where they started
C6_Witness ==
  /\ last_op = "reset_game"
  /\ game_state = "playing"
  /\ bounce_count = 0
  /\ paddle_left.position # InitPaddleLeft(paddle_speed).position
  /\ paddle_right.position # InitPaddleRight(paddle_speed).position

\* C7: to_menu, in whichever state it is called, sets the game state to menu
\* and leaves the scores, the bounce count, the ball and both paddles alone.
C7_ToMenu ==
  [][last_op' = "to_menu" =>
       /\ game_state' = "menu"
       /\ UNCHANGED <<score_left, score_right, bounce_count, ball, paddle_left,
                      paddle_right>>]_vars

\* back in the menu with the bounce count of the match that was left
C7_Witness ==
  /\ last_op = "to_menu"
  /\ game_state = "menu"
  /\ bounce_count > 0

\* C8: every ball, after any number of paddle hits, has
\* base_speed <= speed <= max_speed, with max_speed = base_speed times the
\* max_speed_mult of the preset in force when the ball was created.
C8_SpeedBounds ==
  /\ ball.base_speed <= ball.speed
  /\ ball.speed <= ball.max_speed
  /\ ball.max_speed =
       RoundDiv(ball.base_speed * DIFFICULTY_PRESETS[ball_preset].max_speed_mult, 10)

\* a ball that paddle hits have brought to its top speed, after the difficulty
\* was changed to a preset with another max_speed_mult
C8_Witness ==
  /\ ball.speed = ball.max_speed
  /\ ball.speed > ball.base_speed
  /\ bounce_count >= 7
  /\ max_speed_multiplier # DIFFICULTY_PRESETS[ball_preset].max_speed_mult

\* C9: while a ball lives its speed never decreases; a paddle hit multiplies it
\* by speed_increase_factor or sets it to max_speed, nothing else changes it,
\* and once at max_speed it stays there until reset_ball replaces the ball.
C9_SpeedMonotone ==
  [][last_op' \notin {"reset_game", "start_game"} =>
       LET hit_speed == Min(RoundDiv(ball.speed * ball.speed_increase_factor, 100),
                            ball.max_speed)
       IN  /\ ball'.base_speed = ball.base_speed
           /\ ball'.max_speed = ball.max_speed
           /\ ball'.speed >= ball.speed
           /\ ball'.speed # ball.speed =>
                last_op' = "update" /\ ball'.speed = hit_speed
           /\ bounce_count' # bounce_count => ball'.speed = hit_speed
           /\ ball.speed = ball.max_speed => ball'.speed = ball.max_speed]_vars

\* a ball already at its top speed that the player has just returned once more
C9_Witness ==
  /\ last_op = "update"
  /\ ball.speed = ball.max_speed
  /\ ball.position[1] = paddle_left.position[1] + paddle_left.width + ball.radius
  /\ ball.velocity[1] > 0
  /\ bounce_count >= 10

\* C10: after every update made while playing (a wall bounce, a paddle hit with
\* spin and a goal included) the magnitude of the ball's velocity equals the
\* ball's speed within rounding tolerance, unless the velocity is zero.
C10_VelocityMagnitude ==
  (last_op = "update" /\ ticks > 0 /\ ball.velocity # <<0, 0>>) =>
    LET squared == ball.velocity[1] * ball.velocity[1]
                     + ball.velocity[2] * ball.velocity[2]
        low == ball.speed - VelocityTolerance
        high == ball.speed + VelocityTolerance
    IN  low * low <= squared /\ squared <= high * high

\* the update that resolved a paddle hit with spin: the ball is faster than it
\* was spawned and its velocity has a vertical part
C10_Witness ==
  /\ last_op = "update"
  /\ game_state = "playing"
  /\ ball.speed > ball.base_speed
  /\ ball.velocity[2] # 0
  /\ ball.base_speed = ball_speed * Scale

\* the paddle lies between the top and the bottom of the field
Contained(p) ==
  /\ 0 <= p.position[2]
  /\ p.position[2] <= field_height - p.height

\* C11: after Paddle.update(dt, field_height), for any dt >= 0 and any
\* direction in {-1, 0, 1}, 0 <= position.y <= field_height - height; both
\* engine paddles satisfy the bound in every reachable state, the initial one
\* included.
C11_PaddleContainment ==
  \A p \in {paddle_left, paddle_right} :
    /\ Contained(p)
    /\ p.direction \in {-1, 0, 1}
    /\ \A direction \in {-1, 0, 1}, delta_time \in PaddleDeltaTimes :
         Contained(Paddle_update([p EXCEPT !.direction = direction], delta_time,
                                 field_height))

\* the player's paddle was still moving up when an update's clamp held it at
\* the top of the field, and the AI's paddle has left its starting place
C11_Witness ==
  /\ last_op = "update"
  /\ game_state = "playing"
  /\ paddle_left.direction = -1
  /\ paddle_left.position[2] = 0
  /\ paddle_right.position[2] # paddle_left.position[2]

\* C12: bounce_count increases by exactly 1 in each update in which the ball
\* collides with the left paddle; right-paddle hits, wall bounces, goals, pause
\* and to_menu leave it unchanged; otherwise only reset_game (also when
\* start_game calls it) changes it, to 0.
C12_BounceCount ==
  [][IF last_op' = "reset_game" \/ (last_op' = "start_game" /\ game_state = "menu")
     THEN bounce_count' = 0
     ELSE IF last_op' = "update" /\ "left" \in collisions'
     THEN bounce_count' = bounce_count + 1
     ELSE bounce_count' = bounce_count]_vars

\* the player has returned the ball once, and the update that then bounced it
\* off a wall left the count at that one return
C12_Witness ==
  /\ last_op = "update"
  /\ collisions = {"wall"}
  /\ bounce_count = 1


\* C13: SimpleAI.update(ball, dt) sets the controlled paddle's direction to 0
\* when |ball.y - paddle centre y| <= 15.0, to +1 when the difference is above
\* 15.0 and to -1 when it is below -15.0, for every ball and paddle position.
C13_DeadZone ==
  [][last_op' = "ai_update" =>
       LET distance == ball.position[2] - (paddle_right.position[2]
                                            + paddle_right.height \div 2)
       IN  /\ paddle_right'.direction =
                (IF distance > 15 * Scale THEN 1
                 ELSE IF distance < -(15 * Scale) THEN -1
                 ELSE 0)
           /\ paddle_right'.position = paddle_right.position]_vars

\* the AI has just stopped a moving paddle for a ball exactly 15.0 below its
\* centre
C13_Witness ==
  /\ last_op = "ai_update"
  /\ paddle_right.direction = 0
  /\ ball.position[2] - get_center_y(paddle_right) = 15 * Scale
  /\ paddle_right.position[2] # paddle_left.position[2]

C15_NoBall ==
  [][last_op' = "ai_update_none" =>
       /\ paddle_right' = paddle_right
       /\ events' = <<>>]_vars

\* update(None) has just been called on an AI whose paddle is moving, away
\* from where it started
C15_Witness ==
  /\ last_op = "ai_update_none"
  /\ paddle_right.direction # 0
  /\ paddle_right.position[2] # paddle_left.position[2]

\* C16: after set_difficulty(p), called in any game state while a ball is in
\* flight, paddle_left.speed and paddle_right.speed equal p's paddle_speed and
\* ai.difficulty equals p's ai_difficulty immediately.
C16_ImmediateEffect ==
  [][(last_op' = "set_difficulty" /\ ticks > 0) =>
       /\ paddle_left'.speed = DIFFICULTY_PRESETS[difficulty'].paddle_speed * Scale
       /\ paddle_right'.speed = DIFFICULTY_PRESETS[difficulty'].paddle_speed * Scale
       /\ ai'.difficulty = DIFFICULTY_PRESETS[difficulty'].ai_difficulty]_vars

\* C17: set_difficulty(p) leaves the current ball's position, velocity, speed,
\* base_speed, max_speed and speed_increase_factor unchanged; p's ball_speed,
\* speed_increase and max_speed_mult apply only to the ball that the next
\* reset_ball creates (in reset_game, also when start_game calls it).
C17_BallUntouched ==
  [][/\ last_op' = "set_difficulty" => ball' = ball
     /\ (last_op' = "reset_game" \/ (last_op' = "start_game" /\ game_state = "menu")) =>
          LET preset == DIFFICULTY_PRESETS[difficulty]
          IN  /\ Abs(ball'.velocity[1]) = preset.ball_speed * Scale
              /\ ball'.speed_increase_factor = preset.speed_increase
              /\ ball'.max_speed = RoundDiv(ball'.base_speed * preset.max_speed_mult, 10)]_vars

\* the difficulty has just been changed to a preset with another
\* speed_increase while the ball, sped up by paddle hits, is in flight
C17_Witness ==
  /\ last_op = "set_difficulty"
  /\ game_state = "playing"
  /\ ball.speed > ball.base_speed
  /\ difficulty # ball_preset
  /\ ball.speed_increase_factor # speed_increase_factor

\* C18: after every update during 'playing',
\* radius <= ball.position.y <= field_height - radius: the ball never remains
\* beyond the top or bottom wall at the end of a tick.
C18_BallInsideWalls ==
  (last_op = "update" /\ ticks > 0) =>
    /\ ball.radius <= ball.position[2]
    /\ ball.position[2] <= field_height - ball.radius

\* the update has just bounced a ball that had gone beyond the top wall: it
\* lies against the wall and moves down
C18_Witness ==
  /\ last_op = "update"
  /\ "wall" \in collisions
  /\ ball.position[2] = ball.radius
  /\ ball.velocity[2] > 0
  /\ last_ball_position = ball.position

\* C19: update never raises because an event sink is missing: with no audio,
\* visual, lighting or trail callbacks registered, in any combination (also
\* with enable_trail on and set_trail_callbacks never called), the dispatch to
\* each unregistered sink is skipped.
C19_NeverRaises ==
  \A i \in 1..Len(events) : events[i].sink # "error"

\* the events of a sequence that went to the trail sinks
TrailEvents(evs, name) ==
  LET IsOne(e) == e.sink = "trail" /\ e.name = name
  IN  SelectSeq(evs, IsOne)

\* C20, as stated: while game_state is 'playing', every update dispatches a
\* trail-segment event carrying the ball's previous and current position to
\* the registered trail sink, and every wall bounce and every paddle hit
\* dispatches a trail colour-change event.
C20_TrailEveryUpdate ==
  [][(game_state = "playing" /\ last_op' = "update" /\ trail_callbacks) =>
       /\ Len(TrailEvents(events', "trail")) = 1
       /\ TrailEvents(events', "trail")[1].args[1] = last_ball_position
       /\ collisions' # {} => Len(TrailEvents(events', "color_change")) >= 1]_vars

\* C20, amended: while game_state is 'playing' and enable_trail is on with the
\* trail callbacks set, every update first dispatches a trail-segment event
\* carrying last_ball_position and the ball's position after this update's
\* move (before collisions are resolved), and dispatches one colour-change
\* event for a wall bounce and one for a paddle hit; with enable_trail off,
\* as the engine is constructed, update dispatches no trail event.
C20_TrailWhenEnabled ==
  [][(game_state = "playing" /\ last_op' = "update") =>
       IF enable_trail /\ trail_callbacks
       THEN /\ Len(events') >= 1
            /\ events'[1].sink = "trail"
            /\ events'[1].name = "trail"
            /\ events'[1].args[1] = last_ball_position
            /\ collisions' = {} => events'[1].args[2] = ball'.position
            /\ Len(TrailEvents(events', "trail")) = 1
            /\ Len(TrailEvents(events', "color_change"))
                 = (IF "wall" \in collisions' THEN 1 ELSE 0)
                   + (IF collisions' \cap {"left", "right"} # {} THEN 1 ELSE 0)
       ELSE /\ TrailEvents(events', "trail") = <<>>
            /\ TrailEvents(events', "color_change") = <<>>]_vars

\* with the trail enabled and its callbacks set, an update that bounced the
\* ball off a wall has dispatched the segment and then the colour change
C20_Witness ==
  /\ last_op = "update"
  /\ enable_trail
  /\ trail_callbacks
  /\ "wall" \in collisions
  /\ Len(events) >= 2
  /\ events[1].name = "trail"
  /\ events[1].args[1] # events[1].args[2]
  /\ events[2] = Event("trail", "color_change", <<>>)

\* C21: when the ball's velocity is (0, 0), as of a ball built from a
\* zero-length velocity, an update made while playing divides by nothing,
\* raises no error and leaves the velocity at (0, 0).
C21_StillBall ==
  [][(game_state = "playing" /\ last_op' = "update" /\ ball.velocity = <<0, 0>>) =>
       /\ ball'.velocity = <<0, 0>>
       /\ \A i \in 1 .. Len(events') : events'[i].sink # "error"]_vars

\* a ball at rest flush with the left paddle after an update that resolved the
\* paddle hit, spin included, and normalised the velocity
C21_Witness ==
  /\ last_op = "update"
  /\ game_state = "playing"
  /\ ball.base_speed = 0
  /\ ball.velocity = <<0, 0>>
  /\ "left" \in collisions
  /\ ball.position[2] # get_center_y(paddle_left)
  /\ bounce_count >= 2

\* the number of entries of a score list with a score of at least v
CountAtLeast(list, v) ==
  Cardinality({i \in 1 .. Len(list) : list[i].score >= v})

\* the number of add_score calls so far that passed a score of at least v
AddedAtLeast(v) == SumTo(added, MaxScore) - SumTo(added, v - 1)

\* C22: after any sequence of add_score calls the stored list has at most
\* MAX_SCORES_KEPT = 5 entries, is sorted by score in non-increasing order and
\* holds the 5 largest scores added so far, all of them when fewer than 5
\* were added.
C22_TopScores ==
  /\ Len(scores) <= MAX_SCORES_KEPT
  /\ \A i \in 1 .. Len(scores) - 1 : scores[i].score >= scores[i + 1].score
  /\ \A v \in ScoreValues :
       CountAtLeast(scores, v) = Min(MAX_SCORES_KEPT, AddedAtLeast(v))
  /\ get_top_scores(scores, MAX_SCORES_KEPT) = scores
  /\ get_highest_score(scores) =
       (IF \E v \in ScoreValues : added[v] > 0
        THEN CHOOSE v \in ScoreValues :
               added[v] > 0 /\ \A w \in ScoreValues : added[w] > 0 => w <= v
        ELSE 0)

\* six scores were added, the lowest of them was dropped and the list is full
C22_Witness ==
  /\ last_op = "add_score"
  /\ SumTo(added, MaxScore) = MaxAdds
  /\ added[0] >= 1
  /\ Len(scores) = MAX_SCORES_KEPT
  /\ scores[MAX_SCORES_KEPT].score >= 1
  /\ scores[1].score > scores[MAX_SCORES_KEPT].score

\* the speed one increase_speed call leaves a ball of this speed with
SpedUp(b, speed) == Min(RoundDiv(speed * b.speed_increase_factor, 100), b.max_speed)

\* C23: ball.speed changes only in an update in which a paddle collision is
\* resolved, and then by exactly one increase_speed per paddle collision; an
\* update with only a wall bounce, with free flight or with a goal leaves it
\* unchanged, and so does every operation that keeps the ball.
C23_SpeedOnPaddleHit ==
  [][last_op' \notin {"reset_game", "start_game"} =>
       ball'.speed =
         (IF last_op' = "update" /\ {"left", "right"} \subseteq collisions'
          THEN SpedUp(ball, SpedUp(ball, ball.speed))
          ELSE IF last_op' = "update" /\ collisions' \cap {"left", "right"} # {}
          THEN SpedUp(ball, ball.speed)
          ELSE ball.speed)]_vars

\* the update that resolved the ball's first paddle hit left it one
\* increase_speed above the speed it was spawned with
C23_Witness ==
  /\ last_op = "update"
  /\ collisions = {"left"}
  /\ bounce_count = 1
  /\ ball.speed = RoundDiv(ball.base_speed * ball.speed_increase_factor, 100)
  /\ ball.speed > ball.base_speed
  /\ ball.speed < ball.max_speed

\* C24: when the ball overlaps the left paddle it is placed at
\* x = paddle.x + paddle.width + radius, the sign of velocity.x is flipped,
\* hit_position * PADDLE_HIT_VELOCITY_BOOST is added to velocity.y with
\* hit_position = (ball.y - paddle centre y) / (paddle.height / 2), and the
\* velocity is rescaled to the increased speed; for the right paddle the same
\* with x = paddle.x - radius.
C24_PaddleHit ==
  [][(game_state = "playing" /\ last_op' = "update"
        /\ collisions' \cap {"left", "right"} # {}
        /\ ~({"left", "right"} \subseteq collisions')) =>
       LET left == "left" \in collisions'
           p == IF left THEN paddle_left' ELSE paddle_right'
           vy == IF "wall" \in collisions' THEN -ball.velocity[2] ELSE ball.velocity[2]
           center == p.position[2] + p.height \div 2
           spin == RoundDiv((ball'.position[2] - center) * PADDLE_HIT_VELOCITY_BOOST
                              * Scale,
                            p.height \div 2)
           raw == <<-ball.velocity[1], vy + spin>>
           speed == SpedUp(ball, ball.speed)
           size == Magnitude(raw)
       IN  /\ ball'.position[1] =
                (IF left THEN p.position[1] + p.width + ball.radius
                 ELSE p.position[1] - ball.radius)
           /\ ball'.velocity[1] * ball.velocity[1] < 0
           /\ ball'.speed = speed
           /\ ball'.velocity = <<RoundDiv(raw[1] * speed, size),
                                 RoundDiv(raw[2] * speed, size)>>]_vars

\* the AI's paddle has returned the ball off centre: the ball lies against the
\* paddle's face, heads back into the field and has picked up spin
C24_Witness ==
  /\ last_op = "update"
  /\ collisions = {"right"}
  /\ ball.position[1] = paddle_right.position[1] - ball.radius
  /\ ball.velocity[1] < 0
  /\ ball.position[2] # get_center_y(paddle_right)
  /\ ball.speed > ball.base_speed

\* the events of a sequence that went to one sink under one name
SinkEvents(evs, sink, name) ==
  LET IsOne(e) == e.sink = sink /\ e.name = name
  IN  SelectSeq(evs, IsOne)

\* C28: when, after the ball is integrated, ball.y - radius <= 0 or
\* ball.y + radius >= field_height, the sign of the vertical velocity is
\* flipped and the wall_bounce callbacks are dispatched exactly once, with the
\* ball's x and its clamped y; otherwise no wall_bounce is dispatched and
\* wall handling leaves the vertical velocity as it is.
C28_WallBounce ==
  [][(game_state = "playing" /\ last_op' = "update") =>
       LET bounced == "wall" \in collisions'
           size == Magnitude(ball.velocity)
           vy == IF bounced THEN -ball.velocity[2] ELSE ball.velocity[2]
           visual == SinkEvents(events', "visual", "wall_bounce")
           audio == SinkEvents(events', "audio", "ball_bounce")
       IN  /\ bounced <=> ball'.position[2] \in {ball.radius, field_height - ball.radius}
           /\ ~bounced => /\ ball'.position[2] > ball.radius
                          /\ ball'.position[2] < field_height - ball.radius
           /\ collisions' \subseteq {"wall"} =>
                ball'.velocity = <<RoundDiv(ball.velocity[1] * ball.speed, size),
                                   RoundDiv(vy * ball.speed, size)>>
           /\ Len(visual) =
                (IF bounced /\ "wall_bounce" \in visual_callbacks THEN 1 ELSE 0)
           /\ Len(audio) =
                (IF bounced /\ "ball_bounce" \in audio_callbacks THEN 1 ELSE 0)
           /\ Len(visual) = 1 =>
                /\ visual[1].args[2] = ball'.position[2]
                /\ collisions' = {"wall"} => visual[1].args = ball'.position
           /\ Len(audio) = 1 => audio[1].args = <<ball'.position[2], field_height>>]_vars

\* an update bounced the ball off the top wall with the sinks registered: the
\* ball now heads down and the visual sink was handed its position
C28_Witness ==
  /\ last_op = "update"
  /\ collisions = {"wall"}
  /\ ball.position[2] = ball.radius
  /\ ball.velocity[2] > 0
  /\ "wall_bounce" \in visual_callbacks
  /\ SinkEvents(events, "visual", "wall_bounce")
       = <<Event("visual", "wall_bounce", ball.position)>>

\* C25: after a paddle collision is resolved in one update, the update that
\* immediately follows it, for any dt >= 0, does not register a collision with
\* the same paddle again.
C25_NoRepeatedHit ==
  [][(last_op = "update" /\ game_state = "playing" /\ last_op' = "update") =>
       collisions \cap collisions' \cap {"left", "right"} = {}]_vars

\* the ball lies wholly on the field side of the paddle on this side
FieldSide(b, p, side) ==
  IF side = "left"
  THEN b.position[1] - b.radius > p.position[1] + p.width
  ELSE b.position[1] + b.radius < p.position[1]

\* the ball lies wholly beyond the paddle on this side, towards the goal
Beyond(b, p, side) ==
  IF side = "left"
  THEN b.position[1] + b.radius < p.position[1]
  ELSE b.position[1] - b.radius > p.position[1] + p.width

\* the paddle's vertical extent covers the ball's centre
Covers(p, b) ==
  /\ p.position[2] <= b.position[2]
  /\ b.position[2] <= p.position[2] + p.height

\* the ball went past the paddle in this step, from the field side to beyond
\* it, with the paddle covering it before and after
WentPast(p, side) ==
  /\ FieldSide(ball, p, side)
  /\ IF side = "left" THEN ball.velocity[1] < 0 ELSE ball.velocity[1] > 0
  /\ Covers(p, ball)
  /\ Covers(p, ball')
  /\ Beyond(ball', p, side)

\* C26: with 0 < dt <= 0.1 and every ball speed the presets can reach, a ball
\* moving toward a paddle whose vertical extent covers it cannot go from the
\* field side of that paddle to beyond it without a collision with that
\* paddle being registered.
C26_NoTunnelling ==
  [][(game_state = "playing" /\ last_op' = "update") =>
       /\ WentPast(paddle_left', "left") => "left" \in collisions'
       /\ WentPast(paddle_right', "right") => "right" \in collisions']_vars

\* the paddle can still travel both ways in the tall field
NotPinned(p) ==
  /\ p.position[2] > 0
  /\ p.position[2] < TrackFieldHeight * Scale - p.height

\* C27: with the ball's y held fixed and the AI's paddle not pinned at a
\* boundary, for every dt <= 0.1 and every preset paddle speed, the AI never
\* issues move_up in one update and move_down in the next, or the reverse.
C27_NoReversal ==
  [][(last_op = "track" /\ last_op' = "track"
        /\ NotPinned(paddle_right) /\ NotPinned(paddle_right')) =>
       paddle_right.direction * paddle_right'.direction # -1]_vars

\* C29: a goal never increments score_left or score_right and never respawns
\* the ball: both scores are 0 in every reachable state, a goal leaves the
\* ball where it left the field with the match over, and the ball is replaced
\* only by reset_ball, at construction and through reset_game (which
\* start_game calls in the menu).
C29_NoScoring ==
  /\ [](score_left = 0 /\ score_right = 0)
  /\ [][/\ goal_count' > goal_count =>
             /\ game_state' = "game_over"
             /\ ball'.position[1] < 0 \/ ball'.position[1] > field_width
             /\ ball'.base_speed = ball.base_speed
        /\ (last_op' = "reset_game" \/ (last_op' = "start_game" /\ game_state = "menu"))
             \/ /\ ball'.base_speed = ball.base_speed
                /\ ball'.max_speed = ball.max_speed
                /\ ball'.radius = ball.radius
                /\ ball'.speed_increase_factor = ball.speed_increase_factor
                /\ last_op' # "update" => ball' = ball]_vars

\* the AI missed: the ball is right of the field where the goal left it, the
\* match is over and nobody has a point
C29_Witness ==
  /\ last_op = "update"
  /\ game_state = "game_over"
  /\ goal_count = 1
  /\ ball.position[1] > field_width
  /\ score_left = 0
  /\ score_right = 0

\* C30: after reset_game, or start_game from the menu, that follows a match in
\* which the ball was sped up, the new ball has speed == base_speed ==
\* |velocity| and max_speed == base_speed times the max_speed_mult of the
\* preset now in force.
C30_FreshBall ==
  [][(last_op' = "reset_game" \/ (last_op' = "start_game" /\ game_state = "menu")) =>
       /\ ball'.speed = ball'.base_speed
       /\ Magnitude(ball'.velocity) = ball'.base_speed
       /\ ball'.max_speed =
            RoundDiv(ball'.base_speed * DIFFICULTY_PRESETS[difficulty'].max_speed_mult,
                     10)]_vars

\* a match whose ball had gained speed was left for the menu, the preset was
\* changed there and start_game spawned the new ball
C30_Witness ==
  /\ last_op = "start_game"
  /\ replaced_fast
  /\ paddle_left.speed # paddle_speed * Scale
  /\ ball.speed = ball.base_speed
  /\ ball.max_speed > 2 * ball.base_speed
  /\ ticks = 0

\* C31: when Paddle.update clamps position.y to 0 or to field_height - height
\* the paddle's direction keeps the value it had before the call;
\* Paddle.update never modifies direction, so a paddle pinned at a boundary
\* moves away on the first update after its direction is reversed.
C31_DirectionKept ==
  \A p \in {paddle_left, paddle_right} :
    /\ \A direction \in {-1, 0, 1}, delta_time \in PaddleDeltaTimes :
         Paddle_update([p EXCEPT !.direction = direction], delta_time,
                       field_height).direction = direction
    /\ \A delta_time \in PaddleDeltaTimes \ {0} :
         LET up == Paddle_update(move_up(p), delta_time, field_height)
             down == Paddle_update(move_down(p), delta_time, field_height)
         IN  /\ (up.position[2] = 0 /\ field_height > p.height) =>
                  Paddle_update(move_down(up), delta_time,
                                field_height).position[2] > 0
             /\ (down.position[2] = field_height - p.height
                   /\ field_height > p.height) =>
                  Paddle_update(move_up(down), delta_time, field_height).position[2]
                    < field_height - p.height

\* the player's paddle was still moving down when an update's clamp held it
\* at the bottom of the field
C31_Witness ==
  /\ last_op = "update"
  /\ game_state = "playing"
  /\ paddle_left.direction = 1
  /\ paddle_left.position[2] = field_height - paddle_left.height
  /\ paddle_left.position[2] > 0

\* C32: ai.reaction_delay equals REACTION_DELAY_BASE * (1 - ai.difficulty) and
\* ai.difficulty lies in [0, 1] in every reachable state, also after
\* set_difficulty has switched the preset.
C32_AIRetuned ==
  /\ ai.difficulty >= 0
  /\ ai.difficulty <= 100
  /\ ai.reaction_delay = REACTION_DELAY_BASE * (100 - ai.difficulty)

\* C33: Ball.reflect_x applied twice in a row, and Ball.reflect_y applied twice
\* in a row, with nothing in between, restore the original velocity exactly,
\* and neither changes the ball's position or speed.
C33_ReflectTwice ==
  [][/\ last_op' = "reflect_x" =>
          /\ reflect_x(ball').velocity = ball.velocity
          /\ ball'.velocity = <<-ball.velocity[1], ball.velocity[2]>>
          /\ ball'.position = ball.position
          /\ ball'.speed = ball.speed
          /\ reflect_x(ball') = ball
     /\ last_op' = "reflect_y" =>
          /\ reflect_y(ball').velocity = ball.velocity
          /\ ball'.velocity = <<ball.velocity[1], -ball.velocity[2]>>
          /\ ball'.position = ball.position
          /\ ball'.speed = ball.speed
          /\ reflect_y(ball') = ball]_vars

\* a ball in flight that a paddle hit had sped up and spun was reflected
\* horizontally and now heads left
C33_Witness ==
  /\ last_op = "reflect_x"
  /\ ticks > 0
  /\ ball.speed > ball.base_speed
  /\ ball.velocity[1] < 0
  /\ ball.velocity[2] # 0
  /\ reflect_x(reflect_x(ball)) = ball

\* C38: constructing the engine with, or calling set_difficulty with, a name
\* that is no key of DIFFICULTY_PRESETS raises no error and applies the
\* 'medium' preset's ai_difficulty, ball_speed, paddle_speed, speed_increase
\* and max_speed_mult.
C38_UnknownIsMedium ==
  LET expected == IF difficulty \in PresetNames
                  THEN DIFFICULTY_PRESETS[difficulty]
                  ELSE DIFFICULTY_PRESETS["medium"]
  IN  /\ ai_difficulty = expected.ai_difficulty
      /\ ball_speed = expected.ball_speed
      /\ paddle_speed = expected.paddle_speed
      /\ speed_increase_factor = expected.speed_increase
      /\ max_speed_multiplier = expected.max_speed_mult
      /\ ai.difficulty = expected.ai_difficulty
      /\ \A i \in 1 .. Len(events) : events[i].sink # "error"
      /\ (last_op = "init" /\ difficulty \notin PresetNames) =>
           /\ paddle_left.speed = DIFFICULTY_PRESETS["medium"].paddle_speed * Scale
           /\ Abs(ball.velocity[1]) = DIFFICULTY_PRESETS["medium"].ball_speed * Scale

\* an engine constructed as 'hard' was handed a name that is no key and now
\* carries the medium preset's values
C38_Witness ==
  /\ last_op = "set_difficulty"
  /\ difficulty = "expert"
  /\ ball_preset = "hard"
  /\ ball_speed = 250
  /\ paddle_speed = 300
  /\ ai.difficulty = 60

\* C34: whenever game_state is 'playing' or 'paused' between operations,
\* 0 <= ball.position.x <= field_width: a match is never entered or resumed
\* with the out-of-field ball of a finished match, because every path from
\* game_over back to playing (reset_game, or to_menu then start_game) runs
\* reset_ball.
C34_BallInField ==
  /\ [](game_state \in {"playing", "paused"} =>
          /\ ball.position[1] >= 0
          /\ ball.position[1] <= field_width)
  /\ [][(game_state \in {"game_over", "menu"} /\ game_state' = "playing") =>
          /\ last_op' \in {"reset_game", "start_game"}
          /\ ball'.position = <<(FieldWidth \div 2) * Scale,
                                (FieldHeight \div 2) * Scale>>]_vars

\* a paused match whose ball has passed behind the player's paddle and has not
\* yet left the field
C34_Witness ==
  /\ game_state = "paused"
  /\ ball.velocity[1] < 0
  /\ ball.position[1] + ball.radius < paddle_left.position[1]
  /\ ball.position[1] >= 0

Sign(x) == IF x > 0 THEN 1 ELSE IF x < 0 THEN -1 ELSE 0

\* C35: the sign of ball.velocity.x changes only in an update that resolves a
\* paddle collision; wall bounces, spin and renormalisation never flip or zero
\* the horizontal direction, so between paddle hits the ball's x moves
\* monotonically toward one side of the field.
C35_HorizontalDirection ==
  [][last_op' \notin {"reset_game", "start_game"} =>
       /\ Sign(ball'.velocity[1]) # Sign(ball.velocity[1]) =>
            /\ last_op' = "update"
            /\ collisions' \cap {"left", "right"} # {}
       /\ ball'.velocity[1] # 0
       /\ (last_op' = "update" /\ collisions' \cap {"left", "right"} = {}) =>
            /\ ball.velocity[1] > 0 => ball'.position[1] >= ball.position[1]
            /\ ball.velocity[1] < 0 => ball'.position[1] <= ball.position[1]]_vars

\* the player returned the ball with spin and a later update bounced it off a
\* wall: it still heads right
C35_Witness ==
  /\ last_op = "update"
  /\ collisions = {"wall"}
  /\ bounce_count >= 1
  /\ ball.velocity[1] > 0
  /\ ball.position[1] > paddle_left.position[1] + paddle_left.width + ball.radius

\* C36: a wall bounce always turns the ball away from the wall: right after
\* the wall-collision step of an update velocity.y >= 0 if the ball touches
\* the top wall and velocity.y <= 0 if it touches the bottom wall, for every
\* dt >= 0 the caller may pass, so a ball resting flush against a wall is not
\* reflected back into it on the next update.
C36_AwayFromWall ==
  [][(game_state = "playing" /\ last_op' = "update" /\ collisions' = {"wall"}) =>
       /\ ball'.position[2] = ball.radius => ball'.velocity[2] >= 0
       /\ ball'.position[2] = field_height - ball.radius =>
            ball'.velocity[2] <= 0]_vars

\* ---------------------------------------------------------------------------
\* The frame: PongFrame's handling of a finished match (src/ui/frame.py).
\* The key timer polls the engine, wx.CallAfter queues the overlay, and the
\* player presses R, Esc or Space and clicks OK or Start in any order.  The
\* control mode is 'audio' (the default), so the key timer steers no paddle.
\* Esc in the menu closes the frame; a session is followed up to there.

UiDeltaTimes == {100}
MaxUiTicks == 7
MaxPending == 1
UiDifficulties == {"hard"}
UiNames == {"A"}

\* the frame is opened on the engine main.py constructed
InitFrame ==
  /\ Init
  /\ difficulty \in UiDifficulties

\* everything of the engine that to_menu and pause leave alone
engineRest == <<presetVars, callbackVars, score_left, score_right,
                last_ball_position, bounce_count, paddle_left, paddle_right, ai,
                ball, goal_count, ticks, ball_preset>>

\* everything of the engine that reset_game leaves alone
engineKept == <<presetVars, callbackVars, paddle_left, paddle_right, ai>>

\* HighScoreManager.is_high_score
is_high_score(list, score) ==
  IF score <= 0 THEN FALSE
  ELSE IF Len(list) = 0 THEN TRUE
  ELSE score > list[1].score

\* PongFrame.check_game_over: hasattr stays true once the attribute exists
check_game_over ==
  IF game_state = "game_over" /\ game_over_handled = "absent"
  THEN /\ game_over_handled' = "True"
       /\ current_game_score' = bounce_count
       /\ pending_calls' = Append(pending_calls,
                                  [score |-> bounce_count,
                                   is_high_score |-> is_high_score(scores, bounce_count)])
  ELSE /\ game_over_handled' =
            IF game_state # "game_over" /\ game_over_handled # "absent"
            THEN "False"
            ELSE game_over_handled
       /\ UNCHANGED <<current_game_score, pending_calls>>

\* the key timer's handler, PongFrame.check_movement_keys
KeyTimer ==
  /\ last_op' = "key_timer"
  /\ replaced_fast' = FALSE
  /\ check_game_over
  /\ game_over_seen' = (game_state = "game_over")
  /\ events' = <<>>
  /\ collisions' = {}
  /\ UNCHANGED <<engineRest, game_state, scoreVars, game_over_panel_shown,
                 game_over_score, name_entry_shown, menu_panel_shown>>

\* the event loop runs the oldest queued call,
\* PongFrame._show_game_over_overlay(score, is_high_score)
RunCallAfter ==
  /\ pending_calls # <<>>
  /\ last_op' = "call_after"
  /\ replaced_fast' = FALSE
  /\ pending_calls' = Tail(pending_calls)
  /\ game_over_score' = Head(pending_calls).score
  /\ name_entry_shown' = Head(pending_calls).is_high_score
  /\ menu_panel_shown' = FALSE
  /\ game_over_panel_shown' = TRUE
  /\ events' = <<>>
  /\ collisions' = {}
  /\ UNCHANGED <<engineRest, game_state, scoreVars, game_over_handled,
                 current_game_score, game_over_seen>>

\* PongFrame.on_game_over_ok, the name entry holding name
on_game_over_ok(name) ==
  /\ IF name_entry_shown
     THEN /\ score_file' = add_score(scores, name, current_game_score)
          /\ scores' = load_scores(score_file')
          /\ added' = IF current_game_score \in DOMAIN added
                      THEN [added EXCEPT ![current_game_score] = @ + 1]
                      ELSE added
     ELSE UNCHANGED scoreVars
  /\ game_over_panel_shown' = FALSE
  /\ game_state' = "menu"
  /\ menu_panel_shown' = TRUE
  /\ game_over_seen' = FALSE
  /\ replaced_fast' = FALSE
  /\ UNCHANGED <<engineRest, game_over_handled, pending_calls, game_over_score,
                 name_entry_shown, current_game_score>>

\* a click on the overlay's button
ClickOk ==
  /\ game_over_panel_shown
  /\ last_op' = "click_ok"
  /\ \E name \in UiNames : on_game_over_ok(name)
  /\ events' = <<>>
  /\ collisions' = {}

\* a click on the menu's Start button, PongFrame.on_start_game
ClickStart ==
  /\ menu_panel_shown
  /\ Len(pending_calls) < MaxPending
  /\ last_op' = "click_start"
  /\ game_over_handled' = "absent"
  /\ IF game_state = "menu"
     THEN \E angle \in Angles, direction \in {-1, 1} : reset_game(angle, direction)
     ELSE /\ replaced_fast' = FALSE
          /\ UNCHANGED <<score_left, score_right, bounce_count, game_state, ball,
                         last_ball_position, goal_count, ticks, ball_preset>>
  /\ menu_panel_shown' = FALSE
  /\ game_over_panel_shown' = FALSE
  /\ events' = <<>>
  /\ collisions' = {}
  /\ UNCHANGED <<engineKept, scoreVars, pending_calls, game_over_score,
                 name_entry_shown, current_game_score, game_over_seen>>

\* PongFrame.on_key for a key the overlay or the menu swallows
KeySkipped ==
  /\ replaced_fast' = FALSE
  /\ UNCHANGED <<engineRest, game_state, scoreVars, frameVars>>

\* PongFrame.on_key, key R
KeyR ==
  /\ last_op' = "key_r"
  /\ events' = <<>>
  /\ collisions' = {}
  /\ IF game_over_panel_shown \/ game_state = "menu"
     THEN KeySkipped
     ELSE /\ \E angle \in Angles, direction \in {-1, 1} : reset_game(angle, direction)
          /\ game_over_seen' = FALSE
          /\ UNCHANGED <<engineKept, scoreVars, game_over_handled, pending_calls,
                         game_over_panel_shown, game_over_score, name_entry_shown,
                         menu_panel_shown, current_game_score>>

\* PongFrame.on_key, key Esc
KeyEsc ==
  /\ last_op' = "key_esc"
  /\ events' = <<>>
  /\ collisions' = {}
  /\ IF game_over_panel_shown
     THEN \E name \in UiNames : on_game_over_ok(name)
     ELSE /\ game_state # "menu"
          /\ game_state' = "menu"
          /\ menu_panel_shown' = TRUE
          /\ game_over_seen' = FALSE
          /\ replaced_fast' = FALSE
          /\ UNCHANGED <<engineRest, scoreVars, game_over_handled, pending_calls,
                         game_over_panel_shown, game_over_score, name_entry_shown,
                         current_game_score>>

\* PongFrame.on_key, key Space
KeySpace ==
  /\ last_op' = "key_space"
  /\ events' = <<>>
  /\ collisions' = {}
  /\ IF game_over_panel_shown \/ game_state = "menu"
     THEN KeySkipped
     ELSE /\ game_state' = pause(game_state)
          /\ replaced_fast' = FALSE
          /\ UNCHANGED <<engineRest, scoreVars, frameVars>>

\* the game timer's frame, the paddle not steered
UiUpdate ==
  \E delta_time \in UiDeltaTimes : UpdateWithin("none", delta_time, MaxUiTicks)

NextUi ==
  \/ UiUpdate
  \/ KeyTimer
  \/ RunCallAfter
  \/ ClickOk
  \/ ClickStart
  \/ KeyR
  \/ KeyEsc
  \/ KeySpace

\* The key timer fires every KEY_TIMER_INTERVAL_MS and the event loop runs
\* every call wx.CallAfter queued; the player is under no obligation.
SpecUi ==
  /\ InitFrame
  /\ [][NextUi]_vars
  /\ WF_vars(KeyTimer)
  /\ WF_vars(RunCallAfter)

\* C37: every game over the key timer has seen is eventually followed by the
\* overlay being shown with that match's bounce_count, whatever the player
\* presses or clicks and whichever game overs were handled before.
C37_OverlayShown ==
  \A n \in 0 .. MaxUiTicks :
    (game_state = "game_over" /\ game_over_seen /\ bounce_count = n)
      ~> (game_over_panel_shown /\ game_over_score = n)

====
